---- MODULE Spec2Model ----
(***************************************************************************)
(* Model of utils/gifti.cpp: the typed element accessors of a GIFTI data   *)
(* array, the ingestion of a GIFTI container into a surface                *)
(* (mrisReadGIFTIdanum) and the emission of a surface into a container     *)
(* (MRISwriteGIFTISurface).                                                *)
(*                                                                         *)
(* A data array is a record                                                *)
(*   [intent, datatype, ind_ord, num_dim, dims, data]                      *)
(* whose data is the flat buffer, one entry per element (data[k+1] is the  *)
(* element at physical offset k).  Element values are integers that every  *)
(* one of the nine element kinds represents exactly, so widening to double *)
(* on a read and narrowing on a write keep the value.                      *)
(***************************************************************************)
EXTENDS Integers, Sequences, FiniteSets, TLC

VARIABLES da, acc, image, mris, pc, ret, orig

vars == <<da, acc, image, mris, pc, ret, orig>>

(***************************************************************************)
(* Bounds                                                                  *)
(***************************************************************************)
MaxDim0 == 2
MaxDim1 == 2
MaxV == 3
MaxF == 2
MaxArrays == 3
MaxOverlays == 2
MaxFrames == 2

(***************************************************************************)
(* Program constants                                                       *)
(***************************************************************************)
VERTICES_PER_FACE == 3

\* the capacity of mris->cmdlines (MAX_CMDS of the surface header), scaled
\* down
MAX_CMDS == 2

ROW_MAJOR == "GIFTI_IND_ORD_ROW_MAJOR"
COL_MAJOR == "GIFTI_IND_ORD_COL_MAJOR"
IndOrds == {ROW_MAJOR, COL_MAJOR}

\* the cases of the switch of gifti_get_DA_value_2D
GetTypes ==
  {"NIFTI_TYPE_UINT8", "NIFTI_TYPE_INT16", "NIFTI_TYPE_INT32",
   "NIFTI_TYPE_FLOAT32", "NIFTI_TYPE_FLOAT64", "NIFTI_TYPE_COMPLEX64",
   "NIFTI_TYPE_INT8", "NIFTI_TYPE_UINT16", "NIFTI_TYPE_UINT32"}

\* the cases of the switch of gifti_set_DA_value_2D
SetTypes ==
  {"NIFTI_TYPE_UINT8", "NIFTI_TYPE_INT16", "NIFTI_TYPE_INT32",
   "NIFTI_TYPE_FLOAT32",
   "NIFTI_TYPE_INT8", "NIFTI_TYPE_UINT16", "NIFTI_TYPE_UINT32"}

\* a datatype neither switch has a case for
OtherTypes == {"NIFTI_TYPE_INT64"}

\* the nine element kinds of a typed array
ElementKinds ==
  {"NIFTI_TYPE_INT8", "NIFTI_TYPE_UINT8", "NIFTI_TYPE_INT16",
   "NIFTI_TYPE_UINT16", "NIFTI_TYPE_INT32", "NIFTI_TYPE_UINT32",
   "NIFTI_TYPE_FLOAT32", "NIFTI_TYPE_FLOAT64", "NIFTI_TYPE_COMPLEX64"}

(***************************************************************************)
(* Typed element accessors                                                 *)
(***************************************************************************)
Dims0(a) == a.dims[1]
Dims1(a) == IF a.num_dim = 1 THEN 1 ELSE a.dims[2]

\* the element offset both accessors compute in their switch, from the
\* index pair they derived
DAOffset_ignoring_order(a, dim0_index, dim1_index) ==
  dim0_index * Dims1(a) + dim1_index

DAOffset(a, dim0_index, dim1_index) ==
  IF a.ind_ord = ROW_MAJOR
  THEN dim0_index * Dims1(a) + dim1_index
  ELSE dim0_index + dim1_index * Dims0(a)

Exit1 == [ok |-> FALSE, val |-> 0]

\* gifti_get_DA_value_2D: ok = FALSE is exit(1)
gifti_get_DA_value_2D(a, row, col) ==
  IF a.num_dim = 1 /\ col # 0 THEN Exit1
  ELSE IF a.num_dim \notin {1, 2} THEN Exit1
  ELSE IF a.ind_ord \notin IndOrds THEN Exit1
  ELSE
    LET dim0_index == row
        dim1_index == col
    IN IF dim0_index < 0 \/ dim0_index >= Dims0(a)
          \/ dim1_index < 0 \/ dim1_index >= Dims1(a)
       THEN Exit1
       ELSE IF a.datatype \notin GetTypes THEN Exit1
       ELSE [ok |-> TRUE, val |-> a.data[DAOffset(a, dim0_index, dim1_index) + 1]]

\* the index pair gifti_set_DA_value_2D derives from (row, col)
SetIndex(a, row, col) ==
  IF a.num_dim = 1 THEN <<row, col>>
  ELSE IF a.ind_ord = ROW_MAJOR THEN <<row, col>>
  ELSE <<col, row>>

\* gifti_set_DA_value_2D: the array after the call (the same array when the
\* call only prints a message and returns)
gifti_set_DA_value_2D(a, row, col, value) ==
  IF a.num_dim = 1 /\ col # 0 THEN a
  ELSE IF a.num_dim \notin {1, 2} THEN a
  ELSE
    LET dim0_index == SetIndex(a, row, col)[1]
        dim1_index == SetIndex(a, row, col)[2]
    IN IF dim0_index < 0 \/ dim0_index >= Dims0(a)
          \/ dim1_index < 0 \/ dim1_index >= Dims1(a)
       THEN a
       ELSE IF a.datatype \notin SetTypes THEN a
       ELSE [a EXCEPT !.data[DAOffset(a, dim0_index, dim1_index) + 1] = value]

\* whether gifti_set_DA_value_2D terminates the process: it calls exit(1)
\* for a 1-D array accessed with col # 0 and for num_dim other than 1 or 2
SetExits(a, row, col) ==
  \/ a.num_dim = 1 /\ col # 0
  \/ a.num_dim \notin {1, 2}

\* the two storage orders of the file format: where the logical element
\* (r, c) of a d0 x d1 array lies in the buffer
LayoutOffset(ord, d0, d1, r, c) ==
  IF ord = ROW_MAJOR THEN r * d1 + c ELSE r + c * d0

\* the logical position stored at offset k
LayoutRow(ord, d0, d1, k) == IF ord = ROW_MAJOR THEN k \div d1 ELSE k % d0
LayoutCol(ord, d0, d1, k) == IF ord = ROW_MAJOR THEN k % d1 ELSE k \div d0

(***************************************************************************)
(* Containers and surfaces                                                 *)
(***************************************************************************)
POINTSET == "NIFTI_INTENT_POINTSET"
TRIANGLE == "NIFTI_INTENT_TRIANGLE"
NODE_INDEX == "NIFTI_INTENT_NODE_INDEX"
SHAPE == "NIFTI_INTENT_SHAPE"
LABEL == "NIFTI_INTENT_LABEL"
VECTOR == "NIFTI_INTENT_VECTOR"
RGB_VECTOR == "NIFTI_INTENT_RGB_VECTOR"
RGBA_VECTOR == "NIFTI_INTENT_RGBA_VECTOR"
GENMATRIX == "NIFTI_INTENT_GENMATRIX"
TTEST == "NIFTI_INTENT_TTEST"

\* image->labeltable of a file without a LabelTable element
NoLabelTable == [length |-> 0, key |-> <<>>, label |-> <<>>, rgba |-> <<>>, valid |-> TRUE]

\* a parsed container: its data arrays, its label table and what
\* gifti_valid_gifti_image says of it
MakeImage(darray) == [darray |-> darray, labeltable |-> NoLabelTable, valid |-> TRUE]

NoImage == MakeImage(<<>>)
NoMris == [null |-> TRUE]
NoCT == [null |-> TRUE]
NoMatrix == [null |-> TRUE]

\* gifti_DA_rows_cols of the GIFTI library: <<rows, cols>>
gifti_DA_rows_cols(a) ==
  LET nvals == Len(a.data)
  IN IF a.num_dim = 1 THEN <<a.dims[1], 1>>
     ELSE IF a.ind_ord = ROW_MAJOR
          THEN <<a.dims[1], IF a.dims[1] # 0 THEN nvals \div a.dims[1] ELSE 1>>
          ELSE LET r == a.dims[a.num_dim]
               IN <<r, IF r > 0 THEN nvals \div r ELSE 1>>

\* <<num_vertices, num_cols>> as the callers of gifti_DA_rows_cols take
\* them: (rows, cols) of a row-major array, (cols, rows) of any other
RowsCols(a) ==
  LET rc == gifti_DA_rows_cols(a)
  IN IF a.ind_ord = ROW_MAJOR THEN rc ELSE <<rc[2], rc[1]>>

ZeroVertex ==
  [x |-> 0, y |-> 0, z |-> 0, curv |-> 0, val |-> 0, stat |-> 0,
   dx |-> 0, dy |-> 0, dz |-> 0, annotation |-> 0, ripflag |-> FALSE]

\* MRISalloc of the surface library: a zeroed surface
MRISalloc(nvertices, nfaces) ==
  [null |-> FALSE, nvertices |-> nvertices, nfaces |-> nfaces,
   ct |-> NoCT, ncmds |-> 0, cmdlines |-> <<>>,
   useRealRAS |-> 0, vg |-> [valid |-> 0], SRASToTalSRAS_ |-> NoMatrix,
   vertices |-> [v \in 0..(nvertices - 1) |-> ZeroVertex],
   faces |-> [f \in 0..(nfaces - 1) |-> [v |-> <<0, 0, 0>>]],
   vertices_topology |-> [v \in 0..(nvertices - 1) |-> [num |-> 0, f |-> <<>>, n |-> <<>>]]]

MaxOf(S) == CHOOSE x \in S : \A y \in S : y <= x

\* what the environment of a read of img decides: "none", or one of the
\* allocations the read reaches, which fails, or what the build has made
\* of the loop of lines 696-697
ReadAllocs(img) ==
  {"none"}
    \cup (IF \E i \in 1..Len(img.darray) :
               /\ img.darray[i].intent = "NIFTI_INTENT_POINTSET"
               /\ img.darray[i].meta.NUM_TAG_CMDLINE > MAX_CMDS
          THEN {"toskip loop elided"} ELSE {})
    \cup (IF img.labeltable.length > 0 /\ img.labeltable.valid
          THEN {"ct", "ct->entries", "ct->entries[]"}
                 \cup (IF img.labeltable.rgba = <<>> THEN {"labeltable.rgba"} ELSE {})
          ELSE {})
    \cup (IF \E i, j \in 1..Len(img.darray) :
               img.darray[i].intent = "NIFTI_INTENT_POINTSET"
               /\ img.darray[j].intent = "NIFTI_INTENT_TRIANGLE"
          THEN {"MRISalloc"} ELSE {})

\* a colour component is held in 255ths: c stands for the float c / 255.
\* floor(c * 256), at most 255 (lines 441-459)
ByteOfFloat(c) == IF (c * 256) \div 255 > 255 THEN 255 ELSE (c * 256) \div 255

\* randomNumber(0, 1) after setRandomSeed(12): the k-th draw, in 255ths
randomNumber(k) == (k * 97 + 31) % 255

\* the colours lines 415-423 create for a label table without rgba
RandomRGBA(length) ==
  [i \in 1..length |->
     <<randomNumber(3 * (i - 1)), randomNumber(3 * (i - 1) + 1),
       randomNumber(3 * (i - 1) + 2), 255>>]

\* the entry lines 429-460 make of label label_index (from 1) of the table
ColorTableEntry(labeltable, rgba, label_index) ==
  [name |-> labeltable.label[label_index],
   rf |-> rgba[label_index][1], ri |-> ByteOfFloat(rgba[label_index][1]),
   gf |-> rgba[label_index][2], gi |-> ByteOfFloat(rgba[label_index][2]),
   bf |-> rgba[label_index][3], bi |-> ByteOfFloat(rgba[label_index][3]),
   af |-> rgba[label_index][4], ai |-> ByteOfFloat(rgba[label_index][4])]

\* "check for 'LabelTable' data and read into our colortable if exists"
\* (lines 374-479): st "run" or "null", the colour table, and the number of
\* times the image was released on the way out
ReadLabelTable(img, fail) ==
  LET lt == img.labeltable
      rgba == IF lt.rgba = <<>> THEN RandomRGBA(lt.length) ELSE lt.rgba
  IN IF lt.length <= 0 THEN [st |-> "run", ct |-> NoCT, frees |-> 0, nomem |-> FALSE]
     ELSE IF ~lt.valid THEN [st |-> "null", ct |-> NoCT, frees |-> 1, nomem |-> FALSE]
     ELSE IF fail = "ct" THEN [st |-> "null", ct |-> NoCT, frees |-> 1, nomem |-> TRUE]
     ELSE IF fail = "ct->entries" THEN [st |-> "null", ct |-> NoCT, frees |-> 1, nomem |-> TRUE]
     ELSE IF lt.rgba = <<>> /\ fail = "labeltable.rgba"
     THEN [st |-> "null", ct |-> NoCT, frees |-> 0, nomem |-> TRUE]
     ELSE IF fail = "ct->entries[]" THEN [st |-> "null", ct |-> NoCT, frees |-> 1, nomem |-> TRUE]
     ELSE [st |-> "run", frees |-> 0, nomem |-> FALSE,
           ct |-> [null |-> FALSE, nentries |-> lt.length,
                   entries |-> [i \in 1..lt.length |-> ColorTableEntry(lt, rgba, i)]]]

\* the array the search loop leaves in coords / faces: the last one of the
\* intent (0 when there is none); arrays are numbered from 1 here
LastDA(img, intent) ==
  LET S == {i \in 1..Len(img.darray) : img.darray[i].intent = intent}
  IN IF S = {} THEN 0 ELSE MaxOf(S)

\* "Copy in the vertices"
CopyVertices(m, coords) ==
  LET g(v, c) == gifti_get_DA_value_2D(coords, v, c)
  IN IF \E v \in 0..(m.nvertices - 1), c \in 0..2 : ~g(v, c).ok
     THEN [st |-> "exit", m |-> m]
     ELSE [st |-> "run",
           m |-> [m EXCEPT !.vertices =
                    [v \in 0..(m.nvertices - 1) |->
                       [m.vertices[v] EXCEPT !.x = g(v, 0).val,
                                             !.y = g(v, 1).val,
                                             !.z = g(v, 2).val]]]]

\* the list of faces of vertex v after the corners 0 .. j-1 of the faces,
\* taken face by face, have been entered (lines 747-753)
RECURSIVE FaceList(_, _, _)
FaceList(faces, v, j) ==
  IF j = 0 THEN <<>>
  ELSE LET prev == FaceList(faces, v, j - 1)
           face_index == (j - 1) \div VERTICES_PER_FACE
           n == (j - 1) % VERTICES_PER_FACE
       IN IF faces[face_index].v[n + 1] = v THEN Append(prev, face_index) ELSE prev

\* the slot the loop of lines 754-763 leaves in n[]: the last corner m of
\* the face that names the vertex
FaceSlot(faces, face_index, v) ==
  MaxOf({m \in 0..(VERTICES_PER_FACE - 1) : faces[face_index].v[m + 1] = v})

\* "Copy in the faces" and the per-vertex face lists (lines 731-763)
CopyFaces(m, faces) ==
  LET g(f, c) == gifti_get_DA_value_2D(faces, f, c)
  IN IF \E f \in 0..(m.nfaces - 1), c \in 0..2 : ~g(f, c).ok
     THEN [st |-> "exit", m |-> m]
     ELSE IF \E f \in 0..(m.nfaces - 1), c \in 0..2 : g(f, c).val \notin 0..(m.nvertices - 1)
     THEN [st |-> "undefined", m |-> m]
     ELSE
       LET fs == [f \in 0..(m.nfaces - 1) |-> [v |-> <<g(f, 0).val, g(f, 1).val, g(f, 2).val>>]]
           fl(v) == FaceList(fs, v, m.nfaces * VERTICES_PER_FACE)
       IN [st |-> "run",
           m |-> [m EXCEPT !.faces = fs,
                           !.vertices_topology =
                             [v \in 0..(m.nvertices - 1) |->
                                [num |-> Len(fl(v)),
                                 f |-> fl(v),
                                 n |-> [k \in 1..Len(fl(v)) |-> FaceSlot(fs, fl(v)[k], v)]]]]]

\* the metadata of a coordinates array: the value of NUM_TAG_CMDLINE
\* (-1 when the key is absent), the values of TAG_CMDLINE#0,
\* TAG_CMDLINE#1, ... and the number of the 18 VolGeom values present
NoMeta == [NUM_TAG_CMDLINE |-> -1, TAG_CMDLINE |-> <<>>, VolGeom |-> 0]

\* gifti_get_meta_value(&coords->meta, "TAG_CMDLINE#ncmd")
CmdlineTag(meta, ncmd) ==
  IF ncmd < Len(meta.TAG_CMDLINE) THEN meta.TAG_CMDLINE[ncmd + 1] ELSE "NULL"

\* the loop of lines 699-716 from ncmd on: the entries it stores
RECURSIVE CopyCmdlines(_, _, _, _)
CopyCmdlines(meta, ncmds, ncmd, cmdlines) ==
  IF ncmd >= ncmds THEN cmdlines
  ELSE IF CmdlineTag(meta, ncmd) = "NULL" THEN cmdlines
  ELSE CopyCmdlines(meta, ncmds, ncmd + 1, Append(cmdlines, CmdlineTag(meta, ncmd)))

\* "retrieve TAG_CMDLINE info" (lines 682-717); the loop of lines 696-697
\* never changes toskip, so it does not end when toskip is not 0, unless
\* the build has removed it as a loop without side effects (fail =
\* "toskip loop elided")
ReadCmdlines(m, meta, fail) ==
  LET numcmds == IF meta.NUM_TAG_CMDLINE # -1 THEN meta.NUM_TAG_CMDLINE ELSE m.ncmds
      ncmds == IF numcmds > MAX_CMDS THEN MAX_CMDS ELSE numcmds
      toskip == IF numcmds > MAX_CMDS THEN numcmds - MAX_CMDS ELSE 0
  IN IF toskip # 0 /\ fail # "toskip loop elided"
     THEN [st |-> "hang", m |-> [m EXCEPT !.ncmds = ncmds]]
     ELSE [st |-> "run",
           m |-> [m EXCEPT !.ncmds = ncmds,
                           !.cmdlines = CopyCmdlines(meta, ncmds, 0, <<>>)]]

SCANNER_ANAT == "NIFTI_XFORM_SCANNER_ANAT"
XFORM_UNKNOWN == "NIFTI_XFORM_UNKNOWN"
TALAIRACH == "NIFTI_XFORM_TALAIRACH"

\* "check-for and read coordsys struct for talairach xform" (lines 767-786),
\* from transform idx (from 1) on
RECURSIVE ReadCoordsys(_, _, _)
ReadCoordsys_by_xformspace(m, coordsys, idx) ==
  IF idx > Len(coordsys) THEN m
  ELSE IF coordsys[idx].xformspace = SCANNER_ANAT
  THEN ReadCoordsys([m EXCEPT !.useRealRAS = 1], coordsys, idx + 1)
  ELSE IF coordsys[idx].dataspace = XFORM_UNKNOWN /\ coordsys[idx].xformspace = TALAIRACH
  THEN ReadCoordsys([m EXCEPT !.SRASToTalSRAS_ =
                                [null |-> FALSE, rows |-> 4, cols |-> 4,
                                 rptr |-> coordsys[idx].xform]],
                    coordsys, idx + 1)
  ELSE ReadCoordsys(m, coordsys, idx + 1)

ReadCoordsys(m, coordsys, idx) ==
  IF idx > Len(coordsys) THEN m
  ELSE IF coordsys[idx].dataspace = SCANNER_ANAT
  THEN ReadCoordsys([m EXCEPT !.useRealRAS = 1], coordsys, idx + 1)
  ELSE IF coordsys[idx].dataspace = XFORM_UNKNOWN /\ coordsys[idx].xformspace = TALAIRACH
  THEN ReadCoordsys([m EXCEPT !.SRASToTalSRAS_ =
                                [null |-> FALSE, rows |-> 4, cols |-> 4,
                                 rptr |-> coordsys[idx].xform]],
                    coordsys, idx + 1)
  ELSE ReadCoordsys(m, coordsys, idx + 1)

\* the geometry part of mrisReadGIFTIdanum (lines 501-797)
ReadGeometry(img, fail) ==
  LET coords == img.darray[LastDA(img, POINTSET)]
      faces == img.darray[LastDA(img, TRIANGLE)]
      num_vertices == RowsCols(coords)[1]
      num_faces == RowsCols(faces)[1]
  IN IF num_vertices <= 0 \/ RowsCols(coords)[2] # 3 THEN [st |-> "null", m |-> NoMris]
     ELSE IF num_faces <= 0 \/ RowsCols(faces)[2] # 3 THEN [st |-> "null", m |-> NoMris]
     ELSE IF fail = "MRISalloc" THEN [st |-> "nomem", m |-> NoMris]
     ELSE
       LET m0 == [MRISalloc(num_vertices, num_faces) EXCEPT
                    !.vg.valid = IF coords.meta.VolGeom = 18 THEN 1 ELSE 0]
           rc == ReadCmdlines(m0, coords.meta, fail)
           cv == CopyVertices(rc.m, coords)
           cf == CopyFaces(cv.m, faces)
       IN IF rc.st # "run" THEN rc
          ELSE IF cv.st # "run" THEN cv
          ELSE IF cf.st # "run" THEN cf
          ELSE [st |-> "run", m |-> ReadCoordsys(cf.m, coords.coordsys, 1)]

(***************************************************************************)
(* The data arrays of mrisReadGIFTIdanum (lines 824-1152).  The loop state *)
(* is a record                                                             *)
(*   st        "run", or how the call ended: "null" (return NULL),         *)
(*             "exit" (exit(1) in an accessor), "undefined"                *)
(*   m         the surface                                                 *)
(*   node_index, num_index_nodes, found_curv_data, found_statval_data      *)
(*             the locals of the same names (node_index = 0 is NULL,       *)
(*             otherwise the number of the array, from 1)                  *)
(*   touched   the numbers (from 0) of the arrays of which the intent      *)
(*             branches have read an element                               *)
(*   ct        the colour table made of the label table                    *)
(*   outmri    whether the caller gave a volume (outmri != NULL)           *)
(*   frame     *frame                                                      *)
(*   vox       the voxels MRIsetVoxVal has set in outmri:                  *)
(*             <<x, y, z, frame>> :> value                                 *)
(*   frees     the number of gifti_free_image(image) calls                 *)
(*   nomem     whether an allocation failed                                *)
(***************************************************************************)
\* the fields a scalar value goes to
StoreScalar(vertex, field, value) ==
  IF field = "curv" THEN [vertex EXCEPT !.curv = value]
  ELSE [vertex EXCEPT !.val = value, !.stat = value]

\* gifti_free_image(image); return NULL;
ReturnNull(L) == [L EXCEPT !.st = "null", !.frees = @ + 1]

\* MRIsetVoxVal(outmri, x, y, z, frame, value)
MRIsetVoxVal(vox, xyzf, value) ==
  [k \in DOMAIN vox \cup {xyzf} |-> IF k = xyzf THEN value ELSE vox[k]]

\* the voxel lines 953, 965 and 1131 set for vertex vno, and the one line
\* 1144 sets
VoxelOf(L, field, vno) ==
  IF field = "valstat" /\ L.node_index = 0
  THEN <<vno, 0, L.frame, 0>>
  ELSE <<vno, 0, 0, L.frame>>

\* one pass of a SHAPE or statistic loop that stores value at vertex vno
StoreValue(L, field, vno, value) ==
  [L EXCEPT !.m.vertices[vno] = StoreScalar(@, field, value),
            !.vox = IF L.outmri THEN MRIsetVoxVal(@, VoxelOf(L, field, vno), value) ELSE @]
ExpectedNumCols(intent) ==
  IF intent = VECTOR THEN 3
  ELSE IF intent = RGB_VECTOR THEN 3
  ELSE IF intent = RGBA_VECTOR THEN 4
  ELSE IF intent = GENMATRIX THEN 9
  ELSE 1

\* the test of line 909, on <<num_vertices, num_cols>>
MalformedDA(L, darray) ==
  \/ RowsCols(darray)[1] <= 0
  \/ RowsCols(darray)[1] # L.m.nvertices
  \/ RowsCols(darray)[2] > ExpectedNumCols(darray.intent)

Touch(L, numDA) == [L EXCEPT !.touched = @ \cup {numDA}]

\* the vertex a SHAPE or statistic loop writes in iteration i
\* (lines 947 and 1124; the loop variable itself with regular indexing)
LoopVertex(L, img, i) ==
  IF L.node_index # 0
  THEN gifti_get_DA_value_2D(img.darray[L.node_index], i, 0)
  ELSE [ok |-> TRUE, val |-> i]

\* the loops of lines 943-967 (field "curv") and 1120-1146 (field
\* "valstat"), from iteration i on
RECURSIVE ScalarLoop(_, _, _, _, _)
ScalarLoop(L, img, numDA, field, i) ==
  LET count == IF L.node_index # 0 THEN L.num_index_nodes ELSE L.m.nvertices
      vn == LoopVertex(L, img, i)
      g == gifti_get_DA_value_2D(img.darray[numDA + 1], i, 0)
  IN IF i >= count THEN L
     ELSE IF ~vn.ok THEN [L EXCEPT !.st = "exit"]
     ELSE IF vn.val \notin 0..(L.m.nvertices - 1) THEN [L EXCEPT !.st = "undefined"]
     ELSE IF L.m.vertices[vn.val].ripflag THEN ScalarLoop(L, img, numDA, field, i + 1)
     ELSE IF ~g.ok THEN [L EXCEPT !.st = "exit"]
     ELSE ScalarLoop(Touch(StoreValue(L, field, vn.val, g.val), numDA),
                     img, numDA, field, i + 1)

\* the VECTOR loop (lines 1044-1051), from vertex vno on
RECURSIVE VectorLoop(_, _, _, _)
VectorLoop(L, img, numDA, vno) ==
  LET g(c) == gifti_get_DA_value_2D(img.darray[numDA + 1], vno, c)
  IN IF vno >= L.m.nvertices THEN L
     ELSE IF L.m.vertices[vno].ripflag THEN VectorLoop(L, img, numDA, vno + 1)
     ELSE IF ~g(0).ok THEN [L EXCEPT !.st = "exit"]
     ELSE IF ~g(1).ok \/ ~g(2).ok THEN [Touch(L, numDA) EXCEPT !.st = "exit"]
     ELSE VectorLoop(
            Touch([L EXCEPT !.m.vertices[vno].dx = g(0).val,
                            !.m.vertices[vno].dy = g(1).val,
                            !.m.vertices[vno].dz = g(2).val], numDA),
            img, numDA, vno + 1)

\* one colour component as a byte (lines 1066-1092); the values of the
\* model are integers, so floor(c * 256) is c * 256
ColorByte(c) ==
  LET b == IF c > 1 THEN c ELSE c * 256
  IN IF b > 255 THEN 255 ELSE b

\* MRISRGBToAnnot of the surface library
MRISRGBToAnnot(r, g, b) == r + g * 256 + b * 65536

\* the RGB_VECTOR / RGBA_VECTOR loop (lines 1056-1095), from vertex vno on
RECURSIVE RGBLoop(_, _, _, _)
RGBLoop(L, img, numDA, vno) ==
  LET red == gifti_get_DA_value_2D(img.darray[numDA + 1], vno, 0)
      green == gifti_get_DA_value_2D(img.darray[numDA + 1], vno, 0)
      blue == gifti_get_DA_value_2D(img.darray[numDA + 1], vno, 0)
  IN IF vno >= L.m.nvertices THEN L
     ELSE IF L.m.vertices[vno].ripflag THEN RGBLoop(L, img, numDA, vno + 1)
     ELSE IF ~red.ok THEN [L EXCEPT !.st = "exit"]
     ELSE RGBLoop(
            Touch([L EXCEPT !.m.vertices[vno].annotation =
                     MRISRGBToAnnot(ColorByte(red.val), ColorByte(green.val),
                                    ColorByte(blue.val))], numDA),
            img, numDA, vno + 1)

\* CTABrgb2Annotation of the colour table library
CTABrgb2Annotation(r, g, b) == r + g * 256 + b * 65536

\* CTABfindAnnotation of the colour table library: the index (from 0) of
\* the first entry with the colour packed in annotation, -1 without one
CTABfindAnnotation(ct, annotation) ==
  LET S == {i \in 1..ct.nentries :
              CTABrgb2Annotation(ct.entries[i].ri, ct.entries[i].gi, ct.entries[i].bi)
                = annotation}
  IN IF S = {} THEN -1 ELSE (CHOOSE i \in S : \A j \in S : i <= j) - 1

\* CTABgetNumberOfValidEntries of the colour table library
CTABgetNumberOfValidEntries(ct) == ct.nentries

\* the search of lines 1001-1006: the first table_index whose key is
\* table_key, ct->nentries without one
TableIndex_key_as_position(L, img, table_key) ==
  IF table_key \in 0..(L.ct.nentries - 1) THEN table_key ELSE L.ct.nentries

TableIndex(L, img, table_key) ==
  LET S == {i \in 0..(L.ct.nentries - 1) : img.labeltable.key[i + 1] = table_key}
  IN IF S = {} THEN L.ct.nentries ELSE CHOOSE i \in S : \A j \in S : i <= j

\* the LABEL loop (lines 985-1039) at the test of the while, with the
\* locals nindex and vno; a pass that meets a vertex with its ripflag set
\* continues without changing either, so the loop does not end
RECURSIVE LabelLoop(_, _, _, _, _)
LabelLoop(L, img, numDA, nindex, vno) ==
  LET darray == img.darray[numDA + 1]
      vn == IF L.node_index # 0
            THEN gifti_get_DA_value_2D(img.darray[L.node_index], nindex, 0)
            ELSE [ok |-> TRUE, val |-> vno]
      da_index == IF L.node_index # 0 THEN nindex ELSE vno
      table_index == TableIndex(L, img, darray.data[da_index + 1])
      annotation == IF table_index < L.ct.nentries
                    THEN CTABrgb2Annotation(L.ct.entries[table_index + 1].ri,
                                            L.ct.entries[table_index + 1].gi,
                                            L.ct.entries[table_index + 1].bi)
                    ELSE 0
      index == CTABfindAnnotation(L.m.ct, annotation)
      L1 == Touch([L EXCEPT !.m.vertices[vn.val].annotation = annotation], numDA)
  IN IF vno >= L.m.nvertices THEN L
     ELSE IF ~vn.ok THEN [L EXCEPT !.st = "exit"]
     ELSE IF vn.val \notin 0..(L.m.nvertices - 1) THEN [L EXCEPT !.st = "undefined"]
     ELSE IF L.m.vertices[vn.val].ripflag THEN [L EXCEPT !.st = "hang"]
     ELSE IF darray.datatype \notin {"NIFTI_TYPE_INT32", "NIFTI_TYPE_UINT32"}
             \/ (da_index + 1) \notin DOMAIN darray.data
     THEN [L EXCEPT !.st = "undefined"]
     ELSE IF index < 0 \/ index > img.labeltable.length THEN ReturnNull(L1)
     ELSE IF L.node_index # 0
     THEN IF nindex + 1 >= L.num_index_nodes THEN L1
          ELSE LabelLoop(L1, img, numDA, nindex + 1, vn.val)
     ELSE LabelLoop(L1, img, numDA, nindex, vno + 1)

\* "if (outmri != NULL) (*frame)++" (lines 969-970, 1148-1149)
NextFrame(L) ==
  IF L.st = "run" /\ L.outmri THEN [L EXCEPT !.frame = @ + 1] ELSE L

\* "parse each intent type" (lines 927-1151) for array numDA
ParseIntent_every_array(L, img, numDA) ==
  LET darray == img.darray[numDA + 1]
  IN IF darray.intent = SHAPE
     THEN NextFrame(ScalarLoop([L EXCEPT !.found_curv_data = @ + 1], img, numDA, "curv", 0))
     ELSE IF darray.intent = LABEL
     THEN IF L.m.ct.null \/ L.ct.null THEN ReturnNull(L)
          ELSE LabelLoop(L, img, numDA, 0, 0)
     ELSE IF darray.intent = VECTOR THEN VectorLoop(L, img, numDA, 0)
     ELSE IF darray.intent \in {RGB_VECTOR, RGBA_VECTOR} THEN RGBLoop(L, img, numDA, 0)
     ELSE IF darray.intent = GENMATRIX THEN L
     ELSE NextFrame(ScalarLoop([L EXCEPT !.found_statval_data = @ + 1],
                               img, numDA, "valstat", 0))

ParseIntent(L, img, numDA) ==
  LET darray == img.darray[numDA + 1]
  IN IF darray.intent = SHAPE
     THEN IF L.found_curv_data # 0 THEN L
          ELSE NextFrame(ScalarLoop([L EXCEPT !.found_curv_data = @ + 1],
                                    img, numDA, "curv", 0))
     ELSE IF darray.intent = LABEL
     THEN IF L.m.ct.null \/ L.ct.null THEN ReturnNull(L)
          ELSE LabelLoop(L, img, numDA, 0, 0)
     ELSE IF darray.intent = VECTOR THEN VectorLoop(L, img, numDA, 0)
     ELSE IF darray.intent \in {RGB_VECTOR, RGBA_VECTOR} THEN RGBLoop(L, img, numDA, 0)
     ELSE IF darray.intent = GENMATRIX THEN L
     ELSE IF L.found_statval_data # 0 THEN L
          ELSE NextFrame(ScalarLoop([L EXCEPT !.found_statval_data = @ + 1],
                                    img, numDA, "valstat", 0))

\* one iteration of the loop over the data arrays (lines 839-1152)
DataArrayStep_any_position(L, img, numDA) ==
  LET darray == img.darray[numDA + 1]
  IN IF darray.intent \in {POINTSET, TRIANGLE} THEN L
     ELSE IF darray.intent = NODE_INDEX
     THEN IF RowsCols(darray)[1] <= 0
             \/ RowsCols(darray)[1] > L.m.nvertices
             \/ RowsCols(darray)[2] > 1
          THEN ReturnNull([L EXCEPT !.num_index_nodes = RowsCols(darray)[1]])
          ELSE [L EXCEPT !.node_index = numDA + 1, !.num_index_nodes = RowsCols(darray)[1]]
     ELSE IF MalformedDA(L, darray) THEN ReturnNull(L)
     ELSE ParseIntent(L, img, numDA)

DataArrayStep(L, img, numDA) ==
  LET darray == img.darray[numDA + 1]
  IN IF darray.intent \in {POINTSET, TRIANGLE} THEN L
     ELSE IF darray.intent = NODE_INDEX
     THEN IF numDA # 0 THEN ReturnNull(L)
          ELSE IF RowsCols(darray)[1] <= 0
                  \/ RowsCols(darray)[1] > L.m.nvertices
                  \/ RowsCols(darray)[2] > 1
          THEN ReturnNull([L EXCEPT !.num_index_nodes = RowsCols(darray)[1]])
          ELSE [L EXCEPT !.node_index = numDA + 1, !.num_index_nodes = RowsCols(darray)[1]]
     ELSE IF MalformedDA(L, darray) THEN ReturnNull(L)
     ELSE ParseIntent(L, img, numDA)

\* the loop over the data arrays numDA .. endDAnum-1
RECURSIVE DataArrayLoop(_, _, _, _)
DataArrayLoop(L, img, numDA, endDAnum) ==
  IF L.st # "run" \/ numDA >= endDAnum THEN L
  ELSE DataArrayLoop(DataArrayStep(L, img, numDA), img, numDA + 1, endDAnum)

\* mrisReadGIFTIdanum on a parsed container; mris0 is the mris argument,
\* daNum = -1 reads every array, outmri tells whether a volume is given,
\* frame is *frame and fail the allocation that fails
mrisReadGIFTIdanum(img, mris0, daNum, outmri, frame, fail) ==
  LET L0 == [st |-> "run", m |-> NoMris, node_index |-> 0, num_index_nodes |-> 0,
             found_curv_data |-> 0, found_statval_data |-> 0, touched |-> {},
             ct |-> NoCT, outmri |-> outmri, frame |-> frame, vox |-> <<>>,
             frees |-> 0, nomem |-> FALSE]
      lt == ReadLabelTable(img, fail)
      geo == IF LastDA(img, POINTSET) # 0 /\ LastDA(img, TRIANGLE) # 0
             THEN ReadGeometry(img, fail)
             ELSE [st |-> "run", m |-> mris0]
      m1 == IF lt.ct.null THEN geo.m ELSE [geo.m EXCEPT !.ct = lt.ct]
      startDAnum == IF daNum # -1 THEN daNum ELSE 0
      endDAnum == IF daNum # -1 THEN daNum + 1 ELSE Len(img.darray)
      R == DataArrayLoop([L0 EXCEPT !.m = m1, !.ct = lt.ct], img, startDAnum, endDAnum)
  IN IF ~img.valid THEN ReturnNull(L0)
     ELSE IF lt.st # "run"
     THEN [L0 EXCEPT !.st = "null", !.frees = lt.frees, !.nomem = lt.nomem]
     ELSE IF geo.st = "null" THEN ReturnNull(L0)
     ELSE IF geo.st = "nomem" THEN ReturnNull([L0 EXCEPT !.nomem = TRUE])
     ELSE IF geo.st # "run" THEN [L0 EXCEPT !.st = geo.st]
     ELSE IF geo.m.null THEN ReturnNull(L0)
     ELSE IF ~lt.ct.null /\ CTABgetNumberOfValidEntries(m1.ct) # img.labeltable.length
     THEN ReturnNull(L0)
     ELSE IF R.st = "run" THEN [R EXCEPT !.frees = @ + 1]
     ELSE R

(***************************************************************************)
(* MRISwriteGIFTISurface (lines 1885-2272): the coordinates and faces      *)
(* arrays                                                                  *)
(***************************************************************************)
\* calloc: a zeroed buffer of n elements
Zeroed(n) == [k \in 1..n |-> 0]

\* "Copy in all our data" (lines 2026-2035), from vertex_index on
RECURSIVE FillCoords(_, _, _)
FillCoords(coords, m, vertex_index) ==
  IF vertex_index >= m.nvertices THEN coords
  ELSE IF m.vertices[vertex_index].ripflag THEN FillCoords(coords, m, vertex_index + 1)
  ELSE FillCoords(
         gifti_set_DA_value_2D(
           gifti_set_DA_value_2D(
             gifti_set_DA_value_2D(coords, vertex_index, 0, m.vertices[vertex_index].x),
             vertex_index, 1, m.vertices[vertex_index].y),
           vertex_index, 2, m.vertices[vertex_index].z),
         m, vertex_index + 1)

\* a face with a vertex whose ripflag is set (lines 2052-2060, 2098-2106)
RippedFace_first_corner(m, face_index) ==
  m.vertices[m.faces[face_index].v[1]].ripflag

RippedFace(m, face_index) ==
  \E n \in 1..VERTICES_PER_FACE : m.vertices[m.faces[face_index].v[n]].ripflag

\* the three stores of lines 2108-2110
StoreFace_one_corner(faces, faceNum, face) ==
  gifti_set_DA_value_2D(
    gifti_set_DA_value_2D(
      gifti_set_DA_value_2D(faces, faceNum, 0, face.v[1]),
      faceNum, 1, face.v[1]),
    faceNum, 2, face.v[1])

StoreFace(faces, faceNum, face) ==
  gifti_set_DA_value_2D(
    gifti_set_DA_value_2D(
      gifti_set_DA_value_2D(faces, faceNum, 0, face.v[1]),
      faceNum, 1, face.v[2]),
    faceNum, 2, face.v[3])

\* "Copy in all our face data" (lines 2096-2112), from face_index on
RECURSIVE FillFaces(_, _, _, _)
FillFaces(faces, m, face_index, faceNum) ==
  IF face_index >= m.nfaces THEN faces
  ELSE IF RippedFace(m, face_index) THEN FillFaces(faces, m, face_index + 1, faceNum)
  ELSE FillFaces(StoreFace(faces, faceNum, m.faces[face_index]), m, face_index + 1, faceNum + 1)

\* MRISreadTransform of the surface library: mris->SRASToTalSRAS_ after
\* the call, xfm being the transform it finds for out_fname ("NULL": none)
MRISreadTransform(m, xfm) ==
  IF xfm = "NULL" THEN m.SRASToTalSRAS_
  ELSE [null |-> FALSE, rows |-> 4, cols |-> 4, rptr |-> xfm]

\* coords->coordsys (lines 1916-2008)
WriteCoordsys_identity_when_valid(m, xfm) ==
  IF m.useRealRAS # 0
  THEN <<[dataspace |-> SCANNER_ANAT, xformspace |-> SCANNER_ANAT, xform |-> "identity"]>>
  ELSE IF m.vg.valid # 0
       THEN <<[dataspace |-> XFORM_UNKNOWN, xformspace |-> SCANNER_ANAT,
               xform |-> "S*inv(T)"]>>
       ELSE LET M == MRISreadTransform(m, xfm)
            IN IF ~M.null /\ M.rows = 4 /\ M.cols = 4
               THEN <<[dataspace |-> XFORM_UNKNOWN, xformspace |-> TALAIRACH,
                       xform |-> M.rptr]>>
               ELSE <<>>

WriteCoordsys(m, xfm) ==
  IF m.useRealRAS # 0
  THEN IF m.vg.valid # 0
       THEN <<[dataspace |-> SCANNER_ANAT, xformspace |-> XFORM_UNKNOWN,
               xform |-> "T*inv(S)"]>>
       ELSE <<[dataspace |-> SCANNER_ANAT, xformspace |-> SCANNER_ANAT,
               xform |-> "identity"]>>
  ELSE IF m.vg.valid # 0
       THEN <<[dataspace |-> XFORM_UNKNOWN, xformspace |-> SCANNER_ANAT,
               xform |-> "S*inv(T)"]>>
       ELSE LET M == MRISreadTransform(m, xfm)
            IN IF ~M.null /\ M.rows = 4 /\ M.cols = 4
               THEN <<[dataspace |-> XFORM_UNKNOWN, xformspace |-> TALAIRACH,
                       xform |-> M.rptr]>>
               ELSE <<>>

\* the volume geometry and command lines put in coords->meta (lines
\* 2190-2269)
WriteMeta(m) ==
  [VolGeom |-> IF m.vg.valid # 0 THEN 18 ELSE 0,
   NUM_TAG_CMDLINE |-> IF m.ncmds > 0 THEN m.ncmds ELSE -1,
   TAG_CMDLINE |-> IF m.ncmds > 0
                   THEN [k \in 1..m.ncmds |->
                           IF k <= Len(m.cmdlines) THEN m.cmdlines[k] ELSE "undefined"]
                   ELSE <<>>]

\* gifti_alloc_and_add_darray(image) and the store of the array
AddDA(img, darray) == [img EXCEPT !.darray = Append(@, darray)]

\* the ways a write returns an error: with the image released, or still
\* held
Released(st) == [st |-> st, image |-> NoImage, frees |-> 1]
Held(st, img) == [st |-> st, image |-> img, frees |-> 0]

\* MRISwriteGIFTISurface(mris, image, out_fname); fail is the allocation
\* that fails
MRISwriteGIFTISurface(m, img, xfm, fail) ==
  LET coords == [intent |-> POINTSET, datatype |-> "NIFTI_TYPE_FLOAT32",
                 ind_ord |-> ROW_MAJOR, num_dim |-> 2,
                 dims |-> <<m.nvertices, 3>>, data |-> Zeroed(m.nvertices * 3),
                 coordsys |-> WriteCoordsys(m, xfm), meta |-> WriteMeta(m)]
      numFaces == Cardinality({f \in 0..(m.nfaces - 1) : ~RippedFace(m, f)})
      faces == [intent |-> TRIANGLE, datatype |-> "NIFTI_TYPE_INT32",
                ind_ord |-> ROW_MAJOR, num_dim |-> 2,
                dims |-> <<numFaces, 3>>, data |-> Zeroed(numFaces * 3)]
  IN IF fail \in {"coords", "coords->data", "faces", "faces->data"}
     THEN Released("ERROR_NOMEMORY")
     ELSE [st |-> "NO_ERROR", frees |-> 0,
           image |-> AddDA(AddDA(img, FillCoords(coords, m, 0)),
                           FillFaces(faces, m, 0, 0))]

(***************************************************************************)
(* The other writers and MRISwriteGIFTI (lines 1357-1409, 1526-1878)       *)
(***************************************************************************)
\* a 1-D array of one element per vertex, zeroed by calloc
VertexDA(intent, datatype, m) ==
  [intent |-> intent, datatype |-> datatype, ind_ord |-> ROW_MAJOR, num_dim |-> 1,
   dims |-> <<m.nvertices>>, data |-> Zeroed(m.nvertices)]

\* "Copy in all our data" of the shape and statistics writers (lines
\* 1655-1660, 1718-1723), from vertex vno on; field is the field written,
\* "curv" or "stat"
RECURSIVE FillScalars(_, _, _, _)
FillScalars(darray, m, field, vno) ==
  IF vno >= m.nvertices THEN darray
  ELSE IF m.vertices[vno].ripflag THEN FillScalars(darray, m, field, vno + 1)
  ELSE FillScalars(gifti_set_DA_value_2D(darray, vno, 0, m.vertices[vno][field]),
                   m, field, vno + 1)

\* MRISwriteGIFTIShape(mris, image, intent_code, curv_fname); curvOK tells
\* whether MRISreadCurvatureFile reads curv_fname (the values of the model
\* are the ones the surface holds)
MRISwriteGIFTIShape(m, img, curvOK, fail) ==
  IF ~curvOK THEN Released("ERROR_BADFILE")
  ELSE IF fail \in {"shape", "shape->data"} THEN Released("ERROR_NOMEMORY")
  ELSE [st |-> "NO_ERROR", frees |-> 0,
        image |-> AddDA(img, FillScalars(VertexDA(SHAPE, "NIFTI_TYPE_FLOAT32", m), m,
                                         "curv", 0))]

\* MRISwriteGIFTIStats(mris, image, intent_code)
MRISwriteGIFTIStats(m, img, intent_code, fail) ==
  IF fail \in {"stats", "stats->data"} THEN Released("ERROR_NOMEMORY")
  ELSE [st |-> "NO_ERROR", frees |-> 0,
        image |-> AddDA(img, FillScalars(VertexDA(intent_code, "NIFTI_TYPE_FLOAT32", m), m,
                                         "stat", 0))]

\* the label table lines 1745-1807 make of the colour table: entry idx
\* (from 0) has key idx; a colour is <<r, g, b, a>> in 255ths
LabelOf(ct, idx) ==
  IF ct.entries[idx + 1].name # "" THEN ct.entries[idx + 1].name ELSE <<"unknown_", idx>>

LabelColor(ct, idx) ==
  IF ct.entries[idx + 1].name = "" \/ LabelOf(ct, idx) \in {"unknown", "Unknown"}
  THEN <<0, 0, 0, 0>>
  ELSE <<ct.entries[idx + 1].rf, ct.entries[idx + 1].gf, ct.entries[idx + 1].bf, 255>>

WriteLabelTable(ct) ==
  [length |-> ct.nentries,
   key |-> [i \in 1..ct.nentries |-> i - 1],
   label |-> [i \in 1..ct.nentries |-> LabelOf(ct, i - 1)],
   rgba |-> [i \in 1..ct.nentries |-> LabelColor(ct, i - 1)],
   valid |-> TRUE]

\* "Copy our 'annotation' data for each vertex" (lines 1862-1875), from
\* label_index on: a direct store of the index CTABfindAnnotation finds
RECURSIVE FillLabels(_, _, _)
FillLabels(labels, m, label_index) ==
  IF label_index >= m.nvertices THEN labels
  ELSE IF m.vertices[label_index].ripflag THEN FillLabels(labels, m, label_index + 1)
  ELSE FillLabels(
         [labels EXCEPT !.data[label_index + 1] =
            CTABfindAnnotation(m.ct, m.vertices[label_index].annotation)],
         m, label_index + 1)

\* MRISwriteGIFTILabel(mris, image, intent_code)
MRISwriteGIFTILabel(m, img, fail) ==
  IF m.ct.nentries = 0 THEN Held("ERROR_BADFILE", img)
  ELSE IF fail = "labeltable" THEN Held("ERROR_NOMEMORY", img)
  ELSE IF fail \in {"labels", "labels->data"} THEN Released("ERROR_NOMEMORY")
  ELSE [st |-> "NO_ERROR", frees |-> 0,
        image |-> AddDA([img EXCEPT !.labeltable = WriteLabelTable(m.ct)],
                        FillLabels(VertexDA(LABEL, "NIFTI_TYPE_INT32", m), m, 0))]

\* the statistic intents of lines 1558-1567 that the model uses
StatIntents == {TTEST}

\* MRISwriteGIFTIIntent(mris, intent_code, image, out_fname, curv_fname)
\* (lines 1526-1574); env holds what the environment decides: xfm, curvOK,
\* fail, valid, written
MRISwriteGIFTIIntent(m, intent_code, img, env) ==
  IF intent_code \in {POINTSET, TRIANGLE} THEN MRISwriteGIFTISurface(m, img, env.xfm, env.fail)
  ELSE IF intent_code = SHAPE THEN MRISwriteGIFTIShape(m, img, env.curvOK, env.fail)
  ELSE IF intent_code = LABEL THEN MRISwriteGIFTILabel(m, img, env.fail)
  ELSE IF intent_code \in StatIntents THEN MRISwriteGIFTIStats(m, img, intent_code, env.fail)
  ELSE [st |-> "NO_ERROR", frees |-> 0, image |-> img]

\* the end of MRISwriteGIFTI and MRISwriteGIFTICombined: validation, the
\* write of the file, and the release of the image (lines 1391-1408,
\* 2323-2340)
FinishWrite(W, env) ==
  IF ~env.valid THEN Released("ERROR_BADFILE")
  ELSE IF ~env.written THEN Released("ERROR_BADFILE")
  ELSE [st |-> "ERROR_NONE", frees |-> W.frees + 1, image |-> W.image]

\* MRISwriteGIFTI(mris, intent_code, out_fname, curv_fname) with mris and
\* the file names given: how it returns, the image as written (or as held),
\* the number of gifti_free_image calls, and whether the image was
\* allocated
MRISwriteGIFTI(m, intent_code, env) ==
  LET W == MRISwriteGIFTIIntent(m, intent_code, NoImage, env)
  IN IF env.fail = "image"
     THEN [st |-> "ERROR_NOMEMORY", frees |-> 0, image |-> NoImage, allocated |-> FALSE]
     ELSE (IF W.st # "NO_ERROR" THEN W ELSE FinishWrite(W, env)) @@ [allocated |-> TRUE]

(***************************************************************************)
(* MRISwriteGIFTICombined and the writers that take the overlay volume     *)
(* (lines 2276-2593)                                                       *)
(***************************************************************************)
\* MRIgetVoxVal(mri, c, r, s, f) of the overlay volume: nvertices x 1 x 1
\* voxels per frame
MRIgetVoxVal(mri, c, r, s, f) == mri.frames[f + 1][c + 1]

\* "Copy in all our data" (lines 2476-2492, 2565-2581) for one frame f of a
\* volume of height 1 and depth 1, from column c on
RECURSIVE FillFrame(_, _, _, _, _)
FillFrame(darray, m, mri, f, c) ==
  IF c >= mri.width THEN darray
  ELSE IF m.vertices[c].ripflag THEN FillFrame(darray, m, mri, f, c + 1)
  ELSE FillFrame(gifti_set_DA_value_2D(darray, c, 0, MRIgetVoxVal(mri, c, 0, 0, f)),
                 m, mri, f, c + 1)

\* the frames stframe .. endframe - 1, in order
RECURSIVE FillFrames(_, _, _, _, _)
FillFrames(darray, m, mri, f, endframe) ==
  IF f >= endframe THEN darray
  ELSE FillFrames(FillFrame(darray, m, mri, f, 0), m, mri, f + 1, endframe)

\* MRISwriteGIFTIShape(mris, mri, stframe, endframe, image, ...) and
\* MRISwriteGIFTIStats(mris, mri, stframe, endframe, image, ...), which
\* differ in the intent of the array and the name of the allocation
MRISwriteGIFTIOverlay(m, mri, stframe, endframe, img, intent_code, fail) ==
  IF (endframe - stframe) > 1 THEN Held("ERROR_BADFILE", img)
  ELSE IF fail \in (IF intent_code = SHAPE THEN {"shape", "shape->data"}
                    ELSE {"stats", "stats->data"})
  THEN Released("ERROR_NOMEMORY")
  ELSE [st |-> "NO_ERROR", frees |-> 0,
        image |-> AddDA(img, FillFrames(VertexDA(intent_code, "NIFTI_TYPE_FLOAT32", m),
                                        m, mri, stframe, endframe))]

\* MRISwriteGIFTIIntent(mris, mri, stframe, endframe, image, intent_code,
\* ...) (lines 2344-2384)
MRISwriteGIFTIIntentMRI(m, mri, stframe, endframe, img, intent_code, env) ==
  IF intent_code \in {POINTSET, TRIANGLE} THEN MRISwriteGIFTISurface(m, img, env.xfm, env.fail)
  ELSE IF intent_code = SHAPE
  THEN MRISwriteGIFTIOverlay(m, mri, stframe, endframe, img, intent_code, env.fail)
  ELSE IF intent_code = LABEL THEN MRISwriteGIFTILabel(m, img, env.fail)
  ELSE IF intent_code \in StatIntents
  THEN MRISwriteGIFTIOverlay(m, mri, stframe, endframe, img, intent_code, env.fail)
  ELSE [st |-> "NO_ERROR", frees |-> 0, image |-> img]

\* the accessors of MRISurfOverlay on overlay n (from 0)
getNumOverlay(poverlays) == Len(poverlays.overlays)
getOverlayMRI(poverlays) == poverlays.mri
getGIFTIIntent(poverlays, n) == poverlays.overlays[n + 1].giftiintent
getFirstFrameNo(poverlays, n) == poverlays.overlays[n + 1].stframe
getNumFrames(poverlays, n) == poverlays.overlays[n + 1].numframes

\* the loop of lines 2308-2314 on overlay n, from frame f on; W.calls
\* lists the calls of MRISwriteGIFTIIntent as <<n, stframe, endframe>>
RECURSIVE WriteFrames(_, _, _, _, _, _)
WriteFrames(W, m, poverlays, n, f, env) ==
  IF f >= getNumFrames(poverlays, n) THEN W
  ELSE LET R == MRISwriteGIFTIIntentMRI(m, getOverlayMRI(poverlays), f, f + 1, W.image,
                                        getGIFTIIntent(poverlays, n), env)
           calls == Append(W.calls, <<n, f, f + 1>>)
       IN IF R.st # "NO_ERROR" THEN R @@ [calls |-> calls]
          ELSE WriteFrames(R @@ [calls |-> calls], m, poverlays, n, f + 1, env)

\* the loop of lines 2303-2315, from overlay n on
RECURSIVE WriteOverlays(_, _, _, _, _)
WriteOverlays(W, m, poverlays, n, env) ==
  IF n >= getNumOverlay(poverlays) THEN W
  ELSE LET R == WriteFrames(W, m, poverlays, n, getFirstFrameNo(poverlays, n), env)
       IN IF R.st # "NO_ERROR" THEN R ELSE WriteOverlays(R, m, poverlays, n + 1, env)

\* MRISwriteGIFTICombined(mris, poverlays, out_fname) with mris and
\* out_fname given
MRISwriteGIFTICombined(m, poverlays, env) ==
  LET S == MRISwriteGIFTISurface(m, NoImage, env.xfm, env.fail) @@ [calls |-> <<>>]
      W == IF S.st # "NO_ERROR" THEN S ELSE WriteOverlays(S, m, poverlays, 0, env)
  IN IF env.fail = "image"
     THEN [st |-> "ERROR_NOMEMORY", frees |-> 0, image |-> NoImage, allocated |-> FALSE,
           calls |-> <<>>]
     ELSE (IF W.st # "NO_ERROR" THEN W ELSE FinishWrite(W, env))
            @@ [allocated |-> TRUE, calls |-> W.calls]

(***************************************************************************)
(* MRISreadGiftiAsMRI (lines 1189-1324): the arrays of one intent as the   *)
(* frames of a volume of num_vertices x 1 x 1 voxels                       *)
(***************************************************************************)
TIME_SERIES == "NIFTI_INTENT_TIME_SERIES"
NONE == "NIFTI_INTENT_NONE"
NORMAL == "NIFTI_INTENT_NORMAL"

INTENT_CODE_MAX_IDX == 4
intent_code == <<TIME_SERIES, SHAPE, NONE, NORMAL>>

\* gifti_find_DA of the GIFTI library: the array (numbered from 1) that is
\* the index-th one, from 0, of the given intent; 0 is NULL
gifti_find_DA(img, intent, index) ==
  LET S == {i \in 1..Len(img.darray) : img.darray[i].intent = intent}
  IN IF index < 0 \/ index >= Cardinality(S) THEN 0
     ELSE CHOOSE i \in S : Cardinality({j \in S : j < i}) = index

\* the locals of the search when it starts
NoScalars ==
  [st |-> "run", intent_code_idx |-> 0, frame_count |-> 0, num_vertices |-> -1,
   num_cols |-> 0, frees |-> 0]

\* the test of lines 1244-1259 on <<nvertices, ncols>> of the array found
CountDA(S, rc) ==
  IF S.num_vertices = -1
  THEN [S EXCEPT !.frame_count = @ + 1, !.num_vertices = rc[1], !.num_cols = rc[2]]
  ELSE IF S.num_vertices <= 0 \/ S.num_vertices # rc[1] \/ rc[2] # 1
  THEN [S EXCEPT !.frame_count = @ + 1, !.st = "null", !.frees = @ + 1]
  ELSE [S EXCEPT !.frame_count = @ + 1]

\* the search of lines 1223-1272 at the top of the do-while, for the intent
\* at S.intent_code_idx and da_num; a pass that finds no array leaves the
\* do-while with scalars = NULL, whichever of break and continue it takes,
\* and the for loop goes to the next intent; the for loop is left by break
\* only when the last pass of the do-while found an array at da_num =
\* numDA - 1, and otherwise with intent_code_idx = INTENT_CODE_MAX_IDX
RECURSIVE SearchDA(_, _, _)
\* the rest of a pass that found an array and left the locals S1
SearchFound(img, S1, da_num) ==
  IF S1.st # "run" THEN S1
  ELSE IF da_num + 1 >= Len(img.darray) THEN [S1 EXCEPT !.st = "found"]
  ELSE SearchDA(img, S1, da_num + 1)

SearchDA(img, S, da_num) ==
  IF S.intent_code_idx >= INTENT_CODE_MAX_IDX THEN S
  ELSE IF gifti_find_DA(img, intent_code[S.intent_code_idx + 1], da_num) = 0
  THEN SearchDA(img, [S EXCEPT !.intent_code_idx = @ + 1], 0)
  ELSE SearchFound(img,
         CountDA(S, RowsCols(img.darray[gifti_find_DA(img, intent_code[S.intent_code_idx + 1],
                                                      da_num)])),
         da_num)

\* the arrays that hold one frame each in the copy loop (lines 1302-1314)
\* for the intent searched, in the order of the file
FrameArrays(img, intent) ==
  [k \in 1..Cardinality({i \in 1..Len(img.darray) : img.darray[i].intent = intent}) |->
     gifti_find_DA(img, intent, k - 1)]

\* the volume of a call that returns NULL
NoVolume ==
  [st |-> "null", intent_code_idx |-> 0, intent |-> "none", width |-> 0, nframes |-> 0,
   frame_count |-> 0, vox |-> <<>>, frees |-> 1]

\* one pass of the copy loop (lines 1307-1312) for array a, from vertex vno
\* on; MRIsetVoxVal on a frame the volume does not have is undefined
RECURSIVE CopyFrame(_, _, _)
CopyFrame(M, a, vno) ==
  IF vno >= M.width THEN [M EXCEPT !.frame_count = @ + 1]
  ELSE IF ~gifti_get_DA_value_2D(a, vno, 0).ok THEN [M EXCEPT !.st = "exit"]
  ELSE IF M.frame_count >= M.nframes THEN [M EXCEPT !.st = "undefined"]
  ELSE CopyFrame([M EXCEPT !.vox = MRIsetVoxVal(@, <<vno, 0, 0, M.frame_count>>,
                                                gifti_get_DA_value_2D(a, vno, 0).val)],
                 a, vno + 1)

\* the copy loop over the arrays found, from the k-th (from 1) on
RECURSIVE CopyFrames(_, _, _, _)
CopyFrames(M, img, arrays, k) ==
  IF M.st # "run" \/ k > Len(arrays) THEN M
  ELSE CopyFrames(CopyFrame(M, img.darray[arrays[k]], 0), img, arrays, k + 1)

\* "And we're done" (lines 1322-1324)
ReturnVolume(M) ==
  IF M.st = "run" THEN [M EXCEPT !.st = "ok", !.frees = 1] ELSE M

\* the intent the copy loop searches: intent_code[intent_code_idx], and
\* with intent_code_idx = INTENT_CODE_MAX_IDX the word beyond the array
CopyIntent(S, beyond) ==
  IF S.intent_code_idx < INTENT_CODE_MAX_IDX THEN intent_code[S.intent_code_idx + 1]
  ELSE beyond

\* MRISreadGiftiAsMRI after the search has left the locals S
ReadFrames(img, S, read_volume, beyond) ==
  IF S.st = "null" THEN [NoVolume EXCEPT !.intent_code_idx = S.intent_code_idx]
  ELSE IF S.frame_count = 0 THEN [NoVolume EXCEPT !.intent_code_idx = S.intent_code_idx]
  ELSE IF ~read_volume
  THEN [NoVolume EXCEPT !.st = "ok", !.intent_code_idx = S.intent_code_idx,
                        !.width = S.num_vertices, !.nframes = S.frame_count, !.frees = 0]
  ELSE ReturnVolume(
         CopyFrames([NoVolume EXCEPT !.st = "run", !.intent_code_idx = S.intent_code_idx,
                                     !.intent = CopyIntent(S, beyond),
                                     !.width = S.num_vertices, !.nframes = S.frame_count,
                                     !.frees = 0],
                    img, FrameArrays(img, CopyIntent(S, beyond)), 1))

\* MRISreadGiftiAsMRI on a parsed container; beyond is what the word after
\* intent_code[] holds
MRISreadGiftiAsMRI(img, read_volume, beyond) ==
  IF ~img.valid THEN NoVolume
  ELSE ReadFrames(img, SearchDA(img, NoScalars, 0), read_volume, beyond)

(***************************************************************************)
(* The accessors on one array: SpecDA                                      *)
(***************************************************************************)
NoAccess == [op |-> "none", row |-> 0, col |-> 0, value |-> 0, ok |-> TRUE, ret |-> 0, before |-> <<>>]

\* the buffer of a freshly filled array: element k holds k
Ramp(n) == [k \in 1..n |-> k]

\* the values the callers store
SetValues == {7}

NoRet ==
  [op |-> "none", st |-> "none", touched |-> {}, frees |-> 0, nomem |-> FALSE,
   outmri |-> FALSE, frame |-> 0, vox |-> <<>>, allocated |-> FALSE, calls |-> <<>>,
   poverlays |-> <<>>, onto |-> FALSE, xfm |-> "NULL", read_volume |-> FALSE,
   intent_code_idx |-> 0, intent |-> "none", width |-> 0, nframes |-> 0]

OtherIdle ==
  /\ image = NoImage
  /\ mris = NoMris
  /\ pc = "accessor"
  /\ ret = NoRet
  /\ orig = NoMris

InitDA ==
  /\ \E nd \in {1, 2}, d0 \in 1..MaxDim0, d1 \in 1..MaxDim1,
        ord \in IndOrds, ty \in ElementKinds \cup OtherTypes :
       /\ nd = 1 => d1 = 1
       /\ da = [intent |-> "NIFTI_INTENT_NONE", datatype |-> ty, ind_ord |-> ord,
                num_dim |-> nd,
                dims |-> IF nd = 1 THEN <<d0>> ELSE <<d0, d1>>,
                data |-> Ramp(d0 * d1)]
  /\ acc = NoAccess
  /\ OtherIdle

\* the process is gone once an accessor has called exit(1)
Running == acc.ok

\* a caller reads element (row, col)
GetValue(row, col) ==
  /\ Running
  /\ LET r == gifti_get_DA_value_2D(da, row, col)
     IN acc' = [op |-> "get", row |-> row, col |-> col, value |-> 0,
                ok |-> r.ok, ret |-> r.val, before |-> da.data]
  /\ UNCHANGED <<da, image, mris, pc, ret, orig>>

\* a caller writes element (row, col)
PutValue(row, col, value) ==
  /\ Running
  /\ da' = gifti_set_DA_value_2D(da, row, col, value)
  /\ acc' = [op |-> "set", row |-> row, col |-> col, value |-> value,
             ok |-> ~SetExits(da, row, col), ret |-> 0, before |-> da.data]
  /\ UNCHANGED <<image, mris, pc, ret, orig>>

NextDA ==
  \/ \E row \in 0..Dims0(da), col \in 0..Dims1(da) : GetValue(row, col)
  \/ \E row \in 0..Dims0(da), col \in 0..Dims1(da), value \in SetValues :
       PutValue(row, col, value)

SpecDA == InitDA /\ [][NextDA]_vars

(***************************************************************************)
(* Reading and writing a file: Spec                                        *)
(***************************************************************************)
\* an array holding value(r, c) at the logical position (r, c)
MakeDA(intent, datatype, ord, num_dim, rows, cols, value(_, _)) ==
  [intent |-> intent, datatype |-> datatype, ind_ord |-> ord, num_dim |-> num_dim,
   dims |-> IF num_dim = 1 THEN <<rows>> ELSE <<rows, cols>>,
   data |-> [k \in 1..(rows * cols) |->
               value(LayoutRow(ord, rows, cols, k - 1), LayoutCol(ord, rows, cols, k - 1))]]

\* the coordinates of the files of the model
CoordsDA(n, b, ord) ==
  MakeDA(POINTSET, "NIFTI_TYPE_FLOAT32", ord, 2, n, 3,
         LAMBDA r, c : IF c = 0 THEN r + b ELSE IF c = 1 THEN 0 - r ELSE 5)
    @@ [meta |-> NoMeta, coordsys |-> <<>>]

Triples(n) == (0..(n - 1)) \X (0..(n - 1)) \X (0..(n - 1))

\* the face lists of the files of the model: any first face, a face with a
\* repeated vertex included, followed by faces of vertex 0 whose corners
\* ascend
AscendingTriples(n) == {t \in Triples(n) : t[1] = 0 /\ t[2] <= t[3]}

FaceLists(n, f) ==
  {<<first>> \o rest : first \in Triples(n),
                       rest \in [1..(f - 1) -> AscendingTriples(n)]}

FacesDA(tri, ord) ==
  MakeDA(TRIANGLE, "NIFTI_TYPE_INT32", ord, 2, Len(tri), 3,
         LAMBDA r, c : tri[r + 1][c + 1])

\* a sparse node index: distinct vertex numbers
NodeIndexLists(n) ==
  {s \in UNION {[1..k -> 0..(n - 1)] : k \in 1..n} :
     \A i, j \in DOMAIN s : i # j => s[i] # s[j]}

NodeIndexDA(s) ==
  MakeDA(NODE_INDEX, "NIFTI_TYPE_INT32", ROW_MAJOR, 1, Len(s), 1,
         LAMBDA r, c : s[r + 1])

\* the data arrays of the files of the model: row r, column c holds
\* 10 * (r + 1) + c
DataIntents == {SHAPE, TTEST, VECTOR, RGB_VECTOR, RGBA_VECTOR, GENMATRIX}

DataValue(r, c) == 10 * (r + 1) + c

DataDA(intent, ord, rows, cols) ==
  MakeDA(intent, "NIFTI_TYPE_FLOAT32", ord, 2, rows, cols, DataValue)

ColChoices(intent) ==
  {c \in {1, ExpectedNumCols(intent) - 1, ExpectedNumCols(intent),
          ExpectedNumCols(intent) + 1} : c >= 1}

IdleDA ==
  [intent |-> "NIFTI_INTENT_NONE", datatype |-> "NIFTI_TYPE_FLOAT32",
   ind_ord |-> ROW_MAJOR, num_dim |-> 1, dims |-> <<0>>, data |-> <<>>]

\* the label arrays of the files of the model: vertex 1 has key 0, every
\* other vertex key k
LabelDA(n, k) ==
  MakeDA(LABEL, "NIFTI_TYPE_INT32", ROW_MAJOR, 1, n, 1,
         LAMBDA r, c : IF r = 1 THEN 0 ELSE k)

\* the label tables of the files of the model: none, or two labels with
\* keys 0 and 2, with or without colours, valid or not
LabelTables ==
  {NoLabelTable}
    \cup {[length |-> 2, key |-> <<0, 2>>, label |-> <<"unknown", "A">>,
           rgba |-> rgba, valid |-> valid] :
            rgba \in {<<>>, <<<<0, 0, 0, 0>>, <<255, 0, 0, 255>>>>},
            valid \in BOOLEAN}

\* the command lines of the model, from the oldest on
Cmds == <<"cmd0", "cmd1", "cmd2", "cmd3">>

\* the command line history of the files of the model: n command lines
\* recorded
CmdMeta(n) ==
  [NoMeta EXCEPT !.NUM_TAG_CMDLINE = n, !.TAG_CMDLINE = [k \in 1..n |-> Cmds[k]]]

\* the SHAPE and statistic arrays of the files with several of them: the
\* array at position k holds 100 * k + 10 * (r + 1) in row r
OverlayDA(intent, k) ==
  MakeDA(intent, "NIFTI_TYPE_FLOAT32", ROW_MAJOR, 2, MaxV, 1,
         LAMBDA r, c : 100 * k + 10 * (r + 1))

OverlayLists ==
  UNION {[1..k -> {SHAPE, TTEST}] : k \in 2..MaxArrays}

OneFace(nv) == <<<<0, nv \div 2, nv - 1>>>>

\* the files: a surface alone; a surface of nv vertices and one face with
\* one data array, after a node index or not; a data array alone; a
\* surface with a node index that is not the first array; a surface with a
\* command line history, complete or with its last keys missing; a
\* surface with several SHAPE and statistic
\* arrays; a label array with its table, alone, before a surface, or
\* between a node index and a surface; a surface with a face corner, or
\* with an entry of the node index, that is -1 or the vertex count; a
\* container that is not valid
Files(nv) ==
  {MakeImage(<<CoordsDA(n, 1, ord), FacesDA(tri, ord)>>) :
     <<n, ord, tri>> \in
       UNION {{<<n, ord, tri>> : ord \in IndOrds, tri \in FaceLists(n, f)} :
                <<n, f>> \in (1..nv) \X (1..MaxF)}}
  \cup
  UNION {UNION {
     {MakeImage(<<CoordsDA(nv, 0, ROW_MAJOR), FacesDA(OneFace(nv), ROW_MAJOR),
                  DataDA(intent, ord, rows, cols)>>)}
     \cup {MakeImage(<<NodeIndexDA(s), CoordsDA(nv, 0, ROW_MAJOR),
                       FacesDA(OneFace(nv), ROW_MAJOR),
                       DataDA(intent, ord, rows, cols)>>) : s \in NodeIndexLists(nv)} :
       cols \in ColChoices(intent)} :
     <<intent, ord, rows>> \in DataIntents \X IndOrds \X (1..(nv + 1))}
  \cup
  {MakeImage(<<DataDA(intent, ROW_MAJOR, nv, ExpectedNumCols(intent))>>) :
     intent \in DataIntents}
  \cup
  UNION {{MakeImage(<<CoordsDA(nv, 0, ROW_MAJOR), FacesDA(OneFace(nv), ROW_MAJOR),
                      OverlayDA(SHAPE, 2), NodeIndexDA(s)>>),
          MakeImage(<<CoordsDA(nv, 0, ROW_MAJOR), NodeIndexDA(s),
                      FacesDA(OneFace(nv), ROW_MAJOR), OverlayDA(SHAPE, 3)>>),
          MakeImage(<<NodeIndexDA(s), CoordsDA(nv, 0, ROW_MAJOR),
                      FacesDA(OneFace(nv), ROW_MAJOR), OverlayDA(SHAPE, 3), NodeIndexDA(s)>>)} :
           s \in {t \in NodeIndexLists(nv) : Len(t) = nv}}
  \cup
  {MakeImage(<<[CoordsDA(nv, 0, ROW_MAJOR) EXCEPT !.meta = CmdMeta(n)],
               FacesDA(OneFace(nv), ROW_MAJOR)>>) : n \in 1..(2 * MAX_CMDS)}
  \cup
  {MakeImage(<<[CoordsDA(nv, 0, ROW_MAJOR) EXCEPT
                  !.meta = [CmdMeta(s[1]) EXCEPT !.TAG_CMDLINE = SubSeq(@, 1, s[2])]],
               FacesDA(OneFace(nv), ROW_MAJOR)>>) :
     s \in {u \in (1..MAX_CMDS) \X (0..MAX_CMDS) : u[2] < u[1]}}
  \cup
  {MakeImage(<<CoordsDA(nv, 0, ROW_MAJOR), FacesDA(OneFace(nv), ROW_MAJOR)>>
               \o [k \in 1..Len(intents) |-> OverlayDA(intents[k], k + 1)]) :
     intents \in OverlayLists}
  \cup
  UNION {{[MakeImage(<<LabelDA(nv, k)>>) EXCEPT !.labeltable = lt],
          [MakeImage(<<LabelDA(nv, k), CoordsDA(nv, 0, ROW_MAJOR),
                       FacesDA(OneFace(nv), ROW_MAJOR)>>) EXCEPT !.labeltable = lt]} :
           <<lt, k>> \in LabelTables \X (0..2)}
  \cup
  {[MakeImage(<<NodeIndexDA(s), LabelDA(nv, k), CoordsDA(nv, 0, ROW_MAJOR),
                FacesDA(OneFace(nv), ROW_MAJOR)>>) EXCEPT !.labeltable = lt] :
     <<s, lt, k>> \in NodeIndexLists(nv) \X {l \in LabelTables : l.length > 0 /\ l.valid}
                       \X (0..2)}
  \cup
  UNION {{MakeImage(<<CoordsDA(nv, 0, ROW_MAJOR), FacesDA(<<<<0, nv \div 2, id>>>>, ROW_MAJOR)>>),
          MakeImage(<<NodeIndexDA(<<0, id>>), CoordsDA(nv, 0, ROW_MAJOR),
                      FacesDA(OneFace(nv), ROW_MAJOR), DataDA(SHAPE, ROW_MAJOR, nv, 1)>>),
          [MakeImage(<<NodeIndexDA(<<0, id>>), LabelDA(nv, 0), CoordsDA(nv, 0, ROW_MAJOR),
                       FacesDA(OneFace(nv), ROW_MAJOR)>>)
             EXCEPT !.labeltable = [length |-> 2, key |-> <<0, 2>>,
                                    label |-> <<"unknown", "A">>,
                                    rgba |-> <<<<0, 0, 0, 0>>, <<255, 0, 0, 255>>>>,
                                    valid |-> TRUE]]} :
           id \in {-1, nv}}
  \cup
  {[MakeImage(<<CoordsDA(nv, 0, ROW_MAJOR), FacesDA(OneFace(nv), ROW_MAJOR)>>)
      EXCEPT !.valid = FALSE]}

\* the arrays of the files of functional data: the array at position k
\* holds 100 * k + 10 * (r + 1) + c at row r, column c
SeriesDA(intent, k, rows, cols, ord) ==
  MakeDA(intent, "NIFTI_TYPE_FLOAT32", ord, 2, rows, cols,
         LAMBDA r, c : 100 * k + 10 * (r + 1) + c)

SeriesIntents == {TIME_SERIES, SHAPE, NONE, NORMAL, VECTOR}

\* the files of functional data: up to MaxArrays arrays of one value per
\* vertex, of any of the intents; and two time series, the first of one
\* or two columns, the second of any shape
SeriesFiles(nv) ==
  {MakeImage([k \in 1..Len(intents) |-> SeriesDA(intents[k], k, nv, 1, ROW_MAJOR)]) :
     intents \in UNION {[1..n -> SeriesIntents] : n \in 1..MaxArrays}}
  \cup
  {MakeImage(<<SeriesDA(TIME_SERIES, 1, nv, s[1], s[2]),
               SeriesDA(TIME_SERIES, 2, s[3], s[4], s[5])>>) :
     s \in {1, 2} \X IndOrds \X {nv - 1, nv} \X {1, 2} \X IndOrds}
  \cup
  {[MakeImage(<<SeriesDA(TIME_SERIES, 1, nv, 1, ROW_MAJOR)>>) EXCEPT !.valid = FALSE]}

\* the surface of a caller: the surface read from coordinates and faces,
\* vertex v with curvature 10 + v and statistic 20 + v
BaseMesh(nv, tri) ==
  LET m == ReadGeometry(MakeImage(<<CoordsDA(nv, 1, ROW_MAJOR), FacesDA(tri, ROW_MAJOR)>>),
                        "none").m
  IN [m EXCEPT !.vertices = [v \in 0..(nv - 1) |->
                               [m.vertices[v] EXCEPT !.curv = 10 + v, !.stat = 20 + v]]]

\* ... some of its vertices excluded
RipMeshes(nv) ==
  {[m EXCEPT !.vertices = [v \in 0..(nv - 1) |->
                             [m.vertices[v] EXCEPT !.ripflag = (v \in rip)]]] :
     <<m, rip>> \in {BaseMesh(nv, tri) : tri \in [1..2 -> AscendingTriples(nv)]}
                      \X SUBSET (0..(nv - 1))}

\* ... in real or surface coordinates, with or without a valid volume
\* geometry, with or without a Talairach matrix, of 4 x 4 or not
CoordsysMeshes(nv) ==
  {[BaseMesh(nv, OneFace(nv)) EXCEPT !.useRealRAS = real, !.vg.valid = valid,
                             !.SRASToTalSRAS_ = M] :
     <<real, valid, M>> \in
       {0, 1} \X {0, 1} \X {NoMatrix,
                            [null |-> FALSE, rows |-> 4, cols |-> 4, rptr |-> "stored"],
                            [null |-> FALSE, rows |-> 3, cols |-> 3, rptr |-> "stored"]}}

\* ... with a command line history
CmdMeshes(nv) ==
  {[BaseMesh(nv, OneFace(nv)) EXCEPT !.ncmds = n, !.cmdlines = [k \in 1..n |-> Cmds[k]]] :
     n \in 1..MAX_CMDS}

\* the colours of the colour tables of the model, as <<r, g, b>> bytes
Palette == {<<0, 0, 0>>, <<255, 0, 0>>, <<0, 128, 0>>, <<1, 2, 3>>}

\* a colour table entry of the colour table library: the float components
\* are the bytes / 255
CTABEntry(name, rgb) ==
  [name |-> name, rf |-> rgb[1], ri |-> rgb[1], gf |-> rgb[2], gi |-> rgb[2],
   bf |-> rgb[3], bi |-> rgb[3], af |-> 255, ai |-> 255]

\* the colour tables: no entry, or entries "unknown", "A", "B" of pairwise
\* different colours
ColorTables ==
  {[null |-> FALSE, nentries |-> 0, entries |-> <<>>]}
    \cup {[null |-> FALSE, nentries |-> 3,
           entries |-> <<CTABEntry("unknown", c[1]), CTABEntry("A", c[2]),
                         CTABEntry("B", c[3])>>] :
            c \in {d \in Palette \X Palette \X Palette :
                     d[1] # d[2] /\ d[1] # d[3] /\ d[2] # d[3]}}

\* ... with a colour table, the annotation of every vertex being the
\* packed colour of an entry (0 with a table without entries)
LabelMeshes(nv) ==
  UNION {{[BaseMesh(nv, OneFace(nv)) EXCEPT
             !.ct = ct,
             !.vertices = [v \in 0..(nv - 1) |->
                             [@[v] EXCEPT !.annotation =
                                IF ct.nentries = 0 THEN 0
                                ELSE CTABrgb2Annotation(ct.entries[idx[v]].ri,
                                                        ct.entries[idx[v]].gi,
                                                        ct.entries[idx[v]].bi)]]] :
            idx \in [0..(nv - 1) -> IF ct.nentries = 0 THEN {1} ELSE 1..ct.nentries]} :
           ct \in ColorTables}

\* ... with the colour table black, red, green, every vertex red, and the
\* first or the last vertex excluded
RipLabelMeshes(nv) ==
  {[BaseMesh(nv, OneFace(nv)) EXCEPT
      !.ct = [null |-> FALSE, nentries |-> 3,
              entries |-> <<CTABEntry("unknown", <<0, 0, 0>>), CTABEntry("A", <<255, 0, 0>>),
                            CTABEntry("B", <<0, 128, 0>>)>>],
      !.vertices = [v \in 0..(nv - 1) |->
                      [@[v] EXCEPT !.annotation = CTABrgb2Annotation(255, 0, 0),
                                   !.ripflag = (v = rip)]]] :
     rip \in {0, nv - 1}}

CallerMeshes(nv) ==
  RipMeshes(nv) \cup CoordsysMeshes(nv) \cup CmdMeshes(nv) \cup LabelMeshes(nv)
    \cup RipLabelMeshes(nv)

\* the volume of the overlays of a caller: voxel (c, 0, 0, f) holds
\* 100 * (f + 1) + c
OverlayMRI(width, nframes) ==
  [width |-> width, height |-> 1, depth |-> 1, nframes |-> nframes,
   frames |-> [f \in 1..nframes |-> [c \in 1..width |-> 100 * f + (c - 1)]]]

RECURSIVE SumTo(_, _)
SumTo(counts, n) == IF n = 0 THEN 0 ELSE SumTo(counts, n - 1) + counts[n]

\* the overlay lists of a caller: each overlay has an intent, SHAPE and
\* TTEST in turn, and a number of frames, its first frame following the
\* last frame of the overlay before it
Overlays(width) ==
  UNION {{[mri |-> OverlayMRI(width, SumTo(counts, Len(counts))),
           overlays |-> [n \in 1..Len(counts) |->
                           [giftiintent |-> IF (n + first) % 2 = 0 THEN SHAPE ELSE TTEST,
                            stframe |-> SumTo(counts, n - 1),
                            numframes |-> counts[n]]]] :
            <<counts, first>> \in [1..k -> 1..MaxFrames] \X {0, 1}} :
           k \in 1..MaxOverlays}

\* the surfaces of the callers with overlays: vertex 0 excluded or not
OverlayMeshes(nv) ==
  {[BaseMesh(nv, OneFace(nv)) EXCEPT !.vertices[0].ripflag = rip] : rip \in BOOLEAN}

\* a file to read, or the surface of a caller to write, with the overlays
\* of the caller in ret.poverlays
Init ==
  /\ \/ /\ image \in Files(MaxV) \cup SeriesFiles(MaxV)
        /\ mris = NoMris
        /\ pc = "file"
        /\ ret = NoRet
     \/ /\ image = NoImage
        /\ mris \in CallerMeshes(MaxV)
        /\ pc = "mesh"
        /\ ret = NoRet
     \/ /\ image = NoImage
        /\ mris \in OverlayMeshes(MaxV)
        /\ pc = "mesh"
        /\ \E poverlays \in Overlays(MaxV) : ret = [NoRet EXCEPT !.poverlays = poverlays]
  /\ orig = NoMris
  /\ da = IdleDA
  /\ acc = NoAccess

\* the surface a caller reads an overlay or label file onto: the surface
\* the file was written from, without its colour table and annotation
Unlabelled(m) ==
  [m EXCEPT !.ct = NoCT,
            !.vertices = [v \in 0..(m.nvertices - 1) |->
                            [m.vertices[v] EXCEPT !.annotation = 0]]]

\* the mris argument of a read: NULL, or the caller's surface with a file
\* that has none
CallerSurfaces ==
  IF orig.null \/ LastDA(image, POINTSET) # 0 THEN {NoMris} ELSE {NoMris, Unlabelled(orig)}

\* the outmri argument of a read: a volume or NULL with a file that has
\* SHAPE or statistic arrays, the only ones stored in it
CallerVolumes ==
  IF \E i \in 1..Len(image.darray) : image.darray[i].intent \in {SHAPE, TTEST}
  THEN BOOLEAN ELSE {FALSE}

\* the state after a read onto mris0 that ended in L
ReadResult(L, mris0, outmri) ==
  /\ mris' = IF L.st = "run" THEN L.m ELSE NoMris
  /\ ret' = [NoRet EXCEPT !.op = "read",
                          !.st = IF L.st = "run" THEN "ok" ELSE L.st,
                          !.touched = L.touched, !.frees = L.frees,
                          !.nomem = L.nomem, !.outmri = outmri,
                          !.frame = L.frame, !.vox = L.vox, !.allocated = TRUE,
                          !.onto = ~mris0.null]
  /\ pc' = "done"
  /\ UNCHANGED <<image, orig, da, acc>>

\* mrisReadGIFTIfile(fname, mris, outmri, frame) on the file, with *frame
\* = 0
ReadFile ==
  /\ pc = "file"
  /\ \E mris0 \in CallerSurfaces, outmri \in CallerVolumes, fail \in ReadAllocs(image) :
       ReadResult(mrisReadGIFTIdanum(image, mris0, -1, outmri, 0, fail), mris0, outmri)

\* what the word after intent_code[] may hold: an intent of the file, or
\* one that no array of the file has
BeyondIntents(img) ==
  {img.darray[i].intent : i \in 1..Len(img.darray)} \cup {"NIFTI_INTENT_ESTIMATE"}

\* the state after a read of the file as a volume that ended in M
VolumeResult(M, read_volume) ==
  /\ ret' = [NoRet EXCEPT !.op = "volume", !.st = M.st, !.frees = M.frees,
                          !.frame = M.frame_count, !.vox = M.vox, !.allocated = TRUE,
                          !.read_volume = read_volume,
                          !.intent_code_idx = M.intent_code_idx, !.intent = M.intent,
                          !.width = M.width, !.nframes = M.nframes]
  /\ mris' = NoMris
  /\ pc' = "volume"
  /\ UNCHANGED <<image, orig, da, acc>>

\* MRISreadGiftiAsMRI(fname, read_volume) on the file
ReadAsMRI ==
  /\ pc = "file"
  /\ \E read_volume \in BOOLEAN, beyond \in BeyondIntents(image) :
       VolumeResult(MRISreadGiftiAsMRI(image, read_volume, beyond), read_volume)

\* what the environment of a write decides: the transform MRISreadTransform
\* finds, whether the curvature file is read, the allocation that fails,
\* whether the image is valid and whether the file is written
BaseEnv ==
  [xfm |-> "NULL", curvOK |-> TRUE, fail |-> "none", valid |-> TRUE, written |-> TRUE]

\* the allocations of a write of the intents in intent_codes
WriteAllocs(intent_codes) ==
  {"image"}
    \cup (IF POINTSET \in intent_codes
          THEN {"coords", "coords->data", "faces", "faces->data"} ELSE {})
    \cup (IF SHAPE \in intent_codes THEN {"shape", "shape->data"} ELSE {})
    \cup (IF TTEST \in intent_codes THEN {"stats", "stats->data"} ELSE {})
    \cup (IF LABEL \in intent_codes THEN {"labeltable", "labels", "labels->data"} ELSE {})

WriteEnvs(intent_codes) ==
  {[BaseEnv EXCEPT !.fail = fail] : fail \in WriteAllocs(intent_codes)}
    \cup {BaseEnv, [BaseEnv EXCEPT !.valid = FALSE], [BaseEnv EXCEPT !.written = FALSE]}
    \cup (IF POINTSET \in intent_codes /\ pc = "mesh"
          THEN {[BaseEnv EXCEPT !.xfm = "talairach.xfm"]} ELSE {})
    \cup (IF SHAPE \in intent_codes THEN {[BaseEnv EXCEPT !.curvOK = FALSE]} ELSE {})

\* a surface to write: the surface of a caller, or the surface just read
Writable == pc = "mesh" \/ (pc = "done" /\ ret.st = "ok" /\ orig.null)

\* the state after a write that returned W in environment env: the file
\* written replaces the file, and orig is the surface it was written from
Written(op, W, poverlays, env) ==
  /\ image' = W.image
  /\ orig' = IF W.st = "ERROR_NONE" THEN mris ELSE NoMris
  /\ mris' = NoMris
  /\ ret' = [NoRet EXCEPT !.op = op, !.st = W.st, !.frees = W.frees,
                          !.allocated = W.allocated, !.calls = W.calls,
                          !.poverlays = poverlays, !.xfm = env.xfm]
  /\ pc' = IF W.st = "ERROR_NONE" THEN "file" ELSE "failed"
  /\ UNCHANGED <<da, acc>>

\* MRISwriteGIFTI(mris, NIFTI_INTENT_POINTSET, out_fname, NULL)
WriteSurface ==
  /\ Writable
  /\ \E env \in WriteEnvs({POINTSET}) :
       Written("surface", MRISwriteGIFTI(mris, POINTSET, env) @@ [calls |-> <<>>], <<>>, env)

\* MRISwriteGIFTI(mris, intent_code, out_fname, curv_fname) of the
\* curvature or the statistic of the surface of a caller without labels
WriteOverlay ==
  /\ pc = "mesh"
  /\ mris.ct.null
  /\ \E code \in {SHAPE, TTEST} : \E env \in WriteEnvs({code}) :
       Written("overlay", MRISwriteGIFTI(mris, code, env) @@ [calls |-> <<>>], <<>>, env)

\* MRISwriteGIFTI(mris, NIFTI_INTENT_LABEL, out_fname, NULL) of a surface
\* with a colour table
WriteLabel ==
  /\ pc = "mesh"
  /\ ~mris.ct.null
  /\ \E env \in WriteEnvs({LABEL}) :
       Written("label", MRISwriteGIFTI(mris, LABEL, env) @@ [calls |-> <<>>], <<>>, env)

\* MRISwriteGIFTICombined(mris, poverlays, out_fname)
WriteCombined ==
  /\ pc = "mesh"
  /\ ret.poverlays # <<>>
  /\ \E env \in WriteEnvs({POINTSET, SHAPE, TTEST}) :
       Written("combined", MRISwriteGIFTICombined(mris, ret.poverlays, env), ret.poverlays,
               env)

Next ==
  \/ ReadFile
  \/ ReadAsMRI
  \/ WriteSurface
  \/ WriteOverlay
  \/ WriteLabel
  \/ WriteCombined

Spec == Init /\ [][Next]_vars

(***************************************************************************)
(* Properties of the accessors (checked under SpecDA)                      *)
(***************************************************************************)
InBounds(a, row, col) ==
  /\ row >= 0 /\ row < Dims0(a)
  /\ col >= 0 /\ col < Dims1(a)

\* the logical element (r, c) of array a
Logical(a, r, c) ==
  a.data[LayoutOffset(a.ind_ord, Dims0(a), Dims1(a), r, c) + 1]

\* the same logical array, encoded in storage order ord
Reencode(a, ord) ==
  [a EXCEPT !.ind_ord = ord,
            !.data = [k \in 1..Len(a.data) |->
                        Logical(a, LayoutRow(ord, Dims0(a), Dims1(a), k - 1),
                                   LayoutCol(ord, Dims0(a), Dims1(a), k - 1))]]

BeforeDA == [da EXCEPT !.data = acc.before]

\* C1: an in-bounds read of a 2-D array of a supported element kind returns
\* a value, and it is the value the same read returns from the row-major
\* and from the column-major encoding of the same logical array.
C1_GetSameInBothOrders ==
  (acc.op = "get" /\ da.num_dim = 2 /\ da.datatype \in ElementKinds
     /\ InBounds(da, acc.row, acc.col))
  => /\ acc.ok
     /\ \A ord \in IndOrds :
          gifti_get_DA_value_2D(Reencode(da, ord), acc.row, acc.col)
            = [ok |-> TRUE, val |-> acc.ret]

\* C1 witness: an in-bounds read off the diagonal of a column-major array
\* with more than one row and column, after a write has changed the buffer
C1_Witness ==
  /\ acc.op = "get" /\ acc.ok
  /\ da.num_dim = 2 /\ da.ind_ord = COL_MAJOR
  /\ Dims0(da) > 1 /\ Dims1(da) > 1
  /\ acc.row # acc.col
  /\ da.data # Ramp(Len(da.data))

\* C2 (as claimed): an access with row = dims0 and col in [0, dims1) fails
\* on a read and leaves the whole buffer unchanged on a write.
C2_RowPastEnd ==
  (acc.op # "none" /\ acc.row = Dims0(da)
     /\ acc.col >= 0 /\ acc.col < Dims1(da))
  => /\ acc.op = "get" => ~acc.ok
     /\ acc.op = "set" => da.data = acc.before

\* C3 (as claimed, on the element kinds both accessors have a case for):
\* after an in-bounds set(row, col, v), get(row, col) returns v and every
\* other logical element reads as before.
C3_SetThenGet ==
  (acc.op = "set" /\ da.datatype \in SetTypes \cap GetTypes
     /\ InBounds(da, acc.row, acc.col))
  => /\ gifti_get_DA_value_2D(da, acc.row, acc.col)
          = [ok |-> TRUE, val |-> acc.value]
     /\ \A r \in 0..(Dims0(da) - 1), c \in 0..(Dims1(da) - 1) :
          <<r, c>> # <<acc.row, acc.col>>
          => gifti_get_DA_value_2D(da, r, c)
               = gifti_get_DA_value_2D(BeforeDA, r, c)

\* C4 (as claimed, on row-major arrays): for each of the nine element kinds
\* an in-bounds set stores the value and an in-bounds get returns it; any
\* other kind takes the unsupported-type path in both directions.
C4_NineKindsBothWays ==
  (acc.op # "none" /\ da.ind_ord = ROW_MAJOR /\ InBounds(da, acc.row, acc.col))
  => IF da.datatype \in ElementKinds
     THEN /\ acc.op = "get" => acc.ok
          /\ acc.op = "set" =>
               gifti_get_DA_value_2D(da, acc.row, acc.col)
                 = [ok |-> TRUE, val |-> acc.value]
     ELSE /\ acc.op = "get" => ~acc.ok
          /\ acc.op = "set" => da.data = acc.before

(***************************************************************************)
(* Properties of reading and writing (checked under Spec)                  *)
(***************************************************************************)
\* the read of the file of Init has returned / the read of a file with the
\* surface that MRISwriteGIFTISurface wrote has returned
FirstRead == pc = "done" /\ orig.null
ReRead == pc = "done" /\ ~orig.null /\ LastDA(image, POINTSET) # 0

NoRipflag(m) == \A v \in 0..(m.nvertices - 1) : ~m.vertices[v].ripflag

FacesInRange(m) ==
  \A f \in 0..(m.nfaces - 1), n \in 1..VERTICES_PER_FACE :
    m.faces[f].v[n] \in 0..(m.nvertices - 1)

References(m, f, v) == \E n \in 1..VERTICES_PER_FACE : m.faces[f].v[n] = v

\* C6 (as claimed): after geometry ingestion every vertex v has, for every
\* face f that references it, exactly one entry (f, slot) with
\* faces[f].v[slot] = v, no entry for any other face, and an incidence
\* count equal to the number of faces referencing v.
C6_IncidenceExact ==
  (pc = "done" /\ ret.st = "ok")
  => \A v \in 0..(mris.nvertices - 1) :
       LET t == mris.vertices_topology[v]
       IN /\ \A f \in 0..(mris.nfaces - 1) :
               References(mris, f, v)
               => /\ Cardinality({k \in 1..t.num : t.f[k] = f}) = 1
                  /\ \A k \in 1..t.num :
                       t.f[k] = f => mris.faces[f].v[t.n[k] + 1] = v
          /\ \A k \in 1..t.num : References(mris, t.f[k], v)
          /\ t.num = Cardinality({f \in 0..(mris.nfaces - 1) : References(mris, f, v)})

\* the file of Init with a node index: node index, coordinates, faces, data
SparseFile == Len(image.darray) = 4 /\ image.darray[1].intent = NODE_INDEX
\* the file of Init without one: coordinates, faces, data
DenseFile == Len(image.darray) = 3 /\ image.darray[1].intent = POINTSET
DataArray == image.darray[Len(image.darray)]
FileVertices == Dims0(image.darray[LastDA(image, POINTSET)])
NodeCount == Dims0(image.darray[1])
NodeAt(i) == Logical(image.darray[1], i, 0)
Listed(v) == \E i \in 0..(NodeCount - 1) : NodeAt(i) = v
PositionOf(v) == CHOOSE i \in 0..(NodeCount - 1) : NodeAt(i) = v

\* C7 (as claimed): with a node index of k distinct vertices followed by a
\* SHAPE or statistic array of k rows, the read writes the scalar field of
\* vertex index[i] from row i, for every i < k, and leaves the field of
\* every unlisted vertex at 0, its value before the read.
C7_SparseScalar ==
  (FirstRead /\ SparseFile /\ DataArray.intent \in {SHAPE, TTEST}
     /\ DataArray.dims = <<NodeCount, 1>>)
  => /\ ret.st = "ok"
     /\ \A v \in 0..(FileVertices - 1) :
          LET expected == IF Listed(v) THEN Logical(DataArray, PositionOf(v), 0) ELSE 0
          IN IF DataArray.intent = SHAPE
             THEN mris.vertices[v].curv = expected
             ELSE mris.vertices[v].val = expected /\ mris.vertices[v].stat = expected

\* what the VECTOR and RGB loops store from row i of the data array
RowVector(i) ==
  <<Logical(DataArray, i, 0), Logical(DataArray, i, 1), Logical(DataArray, i, 2)>>
RowAnnotation(i) ==
  MRISRGBToAnnot(ColorByte(Logical(DataArray, i, 0)), ColorByte(Logical(DataArray, i, 0)),
                 ColorByte(Logical(DataArray, i, 0)))

\* C8 (as claimed, on the reads that succeed): with a node index, row i of
\* a VECTOR, RGB_VECTOR or RGBA_VECTOR array goes to vertex index[i], and a
\* vertex the index does not list receives nothing.
C8_SparseRowsFollowIndex ==
  (FirstRead /\ SparseFile /\ ret.st = "ok"
     /\ DataArray.intent \in {VECTOR, RGB_VECTOR, RGBA_VECTOR})
  => \A v \in 0..(FileVertices - 1) :
       IF DataArray.intent = VECTOR
       THEN <<mris.vertices[v].dx, mris.vertices[v].dy, mris.vertices[v].dz>>
              = IF Listed(v) THEN RowVector(PositionOf(v)) ELSE <<0, 0, 0>>
       ELSE mris.vertices[v].annotation
              = IF Listed(v) THEN RowAnnotation(PositionOf(v)) ELSE 0

\* C9 (as claimed, on arrays with the column count of their intent): the
\* read succeeds exactly when the row count of the data array is the
\* vertex count, without a node index, or the length of the node index,
\* with one.
C9_ExpectedRows ==
  (FirstRead /\ (SparseFile \/ DenseFile)
     /\ Dims1(DataArray) = ExpectedNumCols(DataArray.intent))
  => (ret.st = "ok"
        <=> Dims0(DataArray) = IF SparseFile THEN NodeCount ELSE FileVertices)

\* C10 (as claimed, on files without a node index and arrays of one row per
\* vertex): a column count other than the one of the intent, larger or
\* smaller, makes the read fail with no element of the array read.
C10_ExpectedCols ==
  (FirstRead /\ DenseFile /\ Dims0(DataArray) = FileVertices
     /\ Dims1(DataArray) # ExpectedNumCols(DataArray.intent))
  => /\ ret.st # "ok"
     /\ (Len(image.darray) - 1) \notin ret.touched

\* the read of a file has returned
ReadDone == pc = "done" /\ ret.op = "read"

\* the file has a NODE_INDEX array that is not its first array
MisplacedNodeIndex ==
  \E i \in 2..Len(image.darray) : image.darray[i].intent = NODE_INDEX

\* C11: the read of a file with a NODE_INDEX array at any position but the
\* first fails and returns no surface, so that a read that succeeds has had
\* at most one sparse index, the first array of the file.
C11_NodeIndexOnlyFirst ==
  (ReadDone /\ MisplacedNodeIndex)
  => /\ ret.st = "null"
     /\ mris.null

\* C11 witness: a file that starts with a node index, used to read the
\* SHAPE array after it, and ends with a second one has been read, no
\* allocation failing
C11_Witness ==
  /\ ReadDone /\ ~ret.nomem
  /\ Len(image.darray) = 5
  /\ image.darray[1].intent = NODE_INDEX /\ image.darray[5].intent = NODE_INDEX
  /\ 3 \in ret.touched
  /\ ret.st = "null"

\* the last Len(s) - n elements of s
Skip(s, n) == [k \in 1..(Len(s) - n) |-> s[k + n]]

\* the metadata of the coordinates of the file
CoordsMeta == image.darray[LastDA(image, POINTSET)].meta

\* C12 (as claimed): a surface whose colour table has the entries
\* "unknown", "A", "B" of pairwise different colours, every annotation
\* being the packed colour of an entry and no vertex excluded, is written
\* by MRISwriteGIFTILabel with the colour (0,0,0,0) for "unknown", and the
\* read of the file onto the surface gives every vertex the table index it
\* had.
C12_LabelRoundTrip ==
  /\ (pc = "file" /\ ret.op = "label" /\ orig.ct.nentries = 3)
     => image.labeltable.rgba[1] = <<0, 0, 0, 0>>
  /\ (ReadDone /\ ~orig.null /\ ret.onto /\ ~ret.nomem
        /\ Len(image.darray) = 1 /\ image.darray[1].intent = LABEL
        /\ orig.ct.nentries = 3 /\ NoRipflag(orig))
     => /\ ret.st = "ok"
        /\ \A v \in 0..(orig.nvertices - 1) :
             CTABfindAnnotation(mris.ct, mris.vertices[v].annotation)
               = CTABfindAnnotation(orig.ct, orig.vertices[v].annotation)

\* C13 (as claimed): the read of a file whose coordinates record 2 *
\* MAX_CMDS command lines, TAG_CMDLINE#0 .. TAG_CMDLINE#(2 * MAX_CMDS - 1),
\* ends with ncmds = MAX_CMDS and with the last MAX_CMDS of them stored, in
\* their order.
C13_CmdlineCap ==
  (FirstRead /\ ~ret.nomem /\ image.valid /\ LastDA(image, POINTSET) # 0
     /\ CoordsMeta.NUM_TAG_CMDLINE = 2 * MAX_CMDS
     /\ Len(CoordsMeta.TAG_CMDLINE) = 2 * MAX_CMDS)
  => /\ ret.st = "ok"
     /\ mris.ncmds = MAX_CMDS
     /\ mris.cmdlines = Skip(CoordsMeta.TAG_CMDLINE, MAX_CMDS)

\* the file of Init with several SHAPE and statistic arrays of one row per
\* vertex: coordinates, faces, and the arrays
OverlayFile ==
  /\ Len(image.darray) >= 4
  /\ image.darray[1].intent = POINTSET /\ image.darray[2].intent = TRIANGLE
  /\ \A i \in 3..Len(image.darray) : image.darray[i].intent \in {SHAPE, TTEST}

\* the arrays of the intents in S, and the first of them (0 without one)
ArraysOf(S) == {i \in 1..Len(image.darray) : image.darray[i].intent \in S}
FirstOf(S) == IF ArraysOf(S) = {} THEN 0 ELSE CHOOSE i \in ArraysOf(S) : \A j \in ArraysOf(S) : i <= j
ValueOfFirst(S, v) == IF FirstOf(S) = 0 THEN 0 ELSE Logical(image.darray[FirstOf(S)], v, 0)

\* C14: the read of a file with several SHAPE and statistic arrays
\* succeeds; the curvature of every vertex is the one of the first SHAPE
\* array and its value and statistic the ones of the first statistic
\* array, whichever comes first, and no other field of the vertex is
\* written.
C14_FirstArrayWins ==
  (FirstRead /\ OverlayFile /\ ~ret.nomem)
  => /\ ret.st = "ok"
     /\ \A v \in 0..(mris.nvertices - 1) :
          mris.vertices[v] =
            [ZeroVertex EXCEPT !.x = Logical(image.darray[1], v, 0),
                               !.y = Logical(image.darray[1], v, 1),
                               !.z = Logical(image.darray[1], v, 2),
                               !.curv = ValueOfFirst({SHAPE}, v),
                               !.val = ValueOfFirst({TTEST}, v),
                               !.stat = ValueOfFirst({TTEST}, v)]

\* C14 witness: a file with a SHAPE array, a statistic array and a second
\* SHAPE array has been read
C14_Witness ==
  /\ FirstRead /\ OverlayFile /\ ret.st = "ok"
  /\ Len(image.darray) = 5
  /\ image.darray[3].intent = SHAPE
  /\ image.darray[4].intent = TTEST
  /\ image.darray[5].intent = SHAPE
  /\ mris.vertices[0].curv # 0 /\ mris.vertices[0].stat # 0
  /\ mris.vertices[0].curv # Logical(image.darray[5], 0, 0)

\* C15 (as claimed): after a read that was given a volume, *frame has
\* advanced by the number of SHAPE and statistic arrays of the file.
C15_AllArraysAreFrames ==
  (FirstRead /\ ret.st = "ok" /\ ret.outmri)
  => ret.frame = Cardinality(ArraysOf({SHAPE, TTEST}))

\* C16 (as claimed): a read that returns NULL has released the image
\* exactly once.
C16_FailedReadReleasesOnce ==
  (ReadDone /\ ret.st = "null")
  => /\ mris.null
     /\ ret.frees = 1

\* C17 (as claimed): a write that returns an error after the image was
\* allocated has released the image exactly once.
C17_FailedWriteReleasesOnce ==
  (pc = "failed" /\ ret.allocated)
  => ret.frees = 1

\* a surface file has been written from the surface orig
SurfaceWritten == pc = "file" /\ ret.op = "surface"

\* face f of orig has no excluded vertex
Kept(f) == \A n \in 1..VERTICES_PER_FACE : ~orig.vertices[orig.faces[f].v[n]].ripflag

\* C18: the surface file has one row of coordinates per vertex, and its
\* rows of faces are the faces without an excluded vertex, in their order
\* and with their three vertex numbers.
C18_FacesWithoutExcluded ==
  SurfaceWritten
  => /\ image.darray[1].intent = POINTSET
     /\ image.darray[1].dims = <<orig.nvertices, 3>>
     /\ image.darray[2].intent = TRIANGLE
     /\ image.darray[2].dims =
          <<Cardinality({f \in 0..(orig.nfaces - 1) : Kept(f)}), 3>>
     /\ \A f \in 0..(orig.nfaces - 1) :
          Kept(f) =>
            \A c \in 0..(VERTICES_PER_FACE - 1) :
              Logical(image.darray[2], Cardinality({g \in 0..(f - 1) : Kept(g)}), c)
                = orig.faces[f].v[c + 1]

\* C18 witness: a surface with an excluded vertex, whose first face has it
\* and whose second face, a different one, has not, has been written
C18_Witness ==
  /\ SurfaceWritten
  /\ orig.nfaces = 2
  /\ ~Kept(0) /\ Kept(1)
  /\ orig.faces[1].v # orig.faces[0].v
  /\ image.darray[2].dims[1] = 1

\* the Talairach matrix MRISwriteGIFTISurface has for orig: the one found
\* for the file, or else the one orig holds
MatrixFound == ret.xfm # "NULL" \/ ~orig.SRASToTalSRAS_.null
MatrixIs4x4 ==
  ret.xfm # "NULL" \/ (orig.SRASToTalSRAS_.rows = 4 /\ orig.SRASToTalSRAS_.cols = 4)

\* C19: the coordinates of a surface file have the transform that
\* useRealRAS, vg.valid and the Talairach matrix decide: real and valid,
\* one tagged (SCANNER_ANAT, UNKNOWN); real and not valid, the identity
\* tagged (SCANNER_ANAT, SCANNER_ANAT); not real and valid, one tagged
\* (UNKNOWN, SCANNER_ANAT); not real, not valid and a 4 x 4 matrix, that
\* matrix tagged (UNKNOWN, TALAIRACH); otherwise none.
C19_OneTransform ==
  SurfaceWritten
  => LET coordsys == image.darray[1].coordsys
         real == orig.useRealRAS # 0
         valid == orig.vg.valid # 0
     IN /\ Len(coordsys) <= 1
        /\ (real /\ valid)
           => /\ Len(coordsys) = 1
              /\ coordsys[1].dataspace = SCANNER_ANAT
              /\ coordsys[1].xformspace = XFORM_UNKNOWN
        /\ (real /\ ~valid)
           => coordsys = <<[dataspace |-> SCANNER_ANAT, xformspace |-> SCANNER_ANAT,
                            xform |-> "identity"]>>
        /\ (~real /\ valid)
           => /\ Len(coordsys) = 1
              /\ coordsys[1].dataspace = XFORM_UNKNOWN
              /\ coordsys[1].xformspace = SCANNER_ANAT
        /\ (~real /\ ~valid /\ MatrixFound /\ MatrixIs4x4)
           => coordsys = <<[dataspace |-> XFORM_UNKNOWN, xformspace |-> TALAIRACH,
                            xform |-> IF ret.xfm # "NULL" THEN ret.xfm
                                      ELSE orig.SRASToTalSRAS_.rptr]>>
        /\ (~real /\ ~valid /\ ~(MatrixFound /\ MatrixIs4x4))
           => coordsys = <<>>

\* C19 witness: a surface in real coordinates with a valid volume geometry
\* and a stored Talairach matrix has been written
C19_Witness ==
  /\ SurfaceWritten
  /\ orig.useRealRAS # 0 /\ orig.vg.valid # 0
  /\ ~orig.SRASToTalSRAS_.null
  /\ Len(image.darray[1].coordsys) = 1

\* the frames of the overlays of the combined write, in overlay order, and
\* the overlay (from 0) of the i-th of them (from 1)
TotalFrames ==
  SumTo([n \in 1..Len(ret.poverlays.overlays) |-> ret.poverlays.overlays[n].numframes],
        Len(ret.poverlays.overlays))
OverlayOfFrame(i) ==
  CHOOSE n \in 0..(Len(ret.poverlays.overlays) - 1) :
    /\ ret.poverlays.overlays[n + 1].stframe < i
    /\ i <= ret.poverlays.overlays[n + 1].stframe + ret.poverlays.overlays[n + 1].numframes

\* C20 (as claimed): a combined write that succeeds has called the overlay
\* writer once for every frame s, s + 1, ..., s + k - 1 of every overlay of
\* first frame s and k frames, in the order of the list, each call for one
\* frame, and the file has one array for each call after the coordinates
\* and the faces.
C20_OncePerOverlayFrame ==
  (pc = "file" /\ ret.op = "combined")
  => /\ ret.calls = [i \in 1..TotalFrames |-> <<OverlayOfFrame(i), i - 1, i>>]
     /\ Len(image.darray) = 2 + TotalFrames

\* C21 (as claimed): the read of a surface followed by an RGB_VECTOR or
\* RGBA_VECTOR array of one row per vertex and three or four columns gives
\* every vertex the annotation packed from column 0 (red), column 1 (green)
\* and column 2 (blue) of its row, each as a byte in 0..255.
C21_ThreeComponents ==
  (FirstRead /\ DenseFile /\ ret.st = "ok"
     /\ DataArray.intent \in {RGB_VECTOR, RGBA_VECTOR}
     /\ Dims0(DataArray) = FileVertices /\ Dims1(DataArray) >= 3)
  => \A v \in 0..(FileVertices - 1) :
       /\ \A c \in 0..2 : ColorByte(Logical(DataArray, v, c)) \in 0..255
       /\ mris.vertices[v].annotation
            = MRISRGBToAnnot(ColorByte(Logical(DataArray, v, 0)),
                             ColorByte(Logical(DataArray, v, 1)),
                             ColorByte(Logical(DataArray, v, 2)))

\* a read of the file as a volume has returned
VolumeDone == pc = "volume" /\ ret.op = "volume"

\* C22 (as claimed): the volume MRISreadGiftiAsMRI returns has one frame
\* for every NIFTI_INTENT_TIME_SERIES array of the file and none for an
\* array of any other intent.
C22_OnlyTimeSeries ==
  (VolumeDone /\ ret.st = "ok")
  => ret.nframes = Cardinality(ArraysOf({TIME_SERIES}))

\* C28 (as claimed): when MRISreadGiftiAsMRI returns a volume it has read,
\* the copy loop has searched intent_code[intent_code_idx] with
\* intent_code_idx in 0..3, the volume has one frame for every array of
\* that intent, and that many frames have been filled.
C28_CopiedIntentIsCounted ==
  (VolumeDone /\ ret.st = "ok" /\ ret.read_volume)
  => /\ ret.intent_code_idx \in 0..(INTENT_CODE_MAX_IDX - 1)
     /\ ret.intent = intent_code[ret.intent_code_idx + 1]
     /\ ret.nframes = Cardinality(ArraysOf({ret.intent}))
     /\ ret.frame = ret.nframes

\* the file starts with a LABEL array, or with a node index and a LABEL
\* array, and the array
SparseLabelFile ==
  /\ Len(image.darray) >= 2
  /\ image.darray[1].intent = NODE_INDEX /\ image.darray[2].intent = LABEL
DenseLabelFile == Len(image.darray) >= 1 /\ image.darray[1].intent = LABEL
LabelArray == IF SparseLabelFile THEN image.darray[2] ELSE image.darray[1]

\* the vertices the LABEL loop covers and the array value of each
Covered(v) == SparseLabelFile => Listed(v)
KeyOfVertex(v) ==
  IF SparseLabelFile THEN LabelArray.data[PositionOf(v) + 1] ELSE LabelArray.data[v + 1]

\* the positions (from 1) of a key in the LabelTable of the file, and the
\* first of them
KeyPositions(key) ==
  {i \in 1..image.labeltable.length : image.labeltable.key[i] = key}
KeyPosition(key) == CHOOSE i \in KeyPositions(key) : \A j \in KeyPositions(key) : i <= j

\* the packed colour of entry i (from 1) of colour table ct
PackedEntry(ct, i) ==
  CTABrgb2Annotation(ct.entries[i].ri, ct.entries[i].gi, ct.entries[i].bi)

\* C23: after a read of a file with a LABEL array that returns a surface,
\* every covered vertex whose array value is a key of the LabelTable has
\* the packed colour of the colour table entry at the position of the key,
\* and the annotation of every covered vertex, a vertex whose value is not
\* a key included, is the packed colour of an entry of the colour table at
\* an index in [0, LabelTable length).
C23_LabelFromTable ==
  (ReadDone /\ ret.st = "ok" /\ (SparseLabelFile \/ DenseLabelFile))
  => \A v \in 0..(mris.nvertices - 1) :
       Covered(v)
       => /\ KeyPositions(KeyOfVertex(v)) # {}
               => mris.vertices[v].annotation
                    = PackedEntry(mris.ct, KeyPosition(KeyOfVertex(v)))
          /\ \E i \in 1..image.labeltable.length :
               /\ i <= mris.ct.nentries
               /\ PackedEntry(mris.ct, i) = mris.vertices[v].annotation

\* C23 witness: a file with a node index and a LABEL array has been read
\* and a surface returned, one listed vertex with a value that is not a key
\* of the LabelTable
C23_Witness ==
  /\ ReadDone /\ ret.st = "ok" /\ SparseLabelFile
  /\ \E v \in 0..(mris.nvertices - 1) : Listed(v) /\ KeyPositions(KeyOfVertex(v)) = {}

\* C23 second case reached: a LABEL array read with a key whose entry is
\* not black
LabelledNotBlack ==
  /\ ReadDone /\ ret.st = "ok" /\ DenseLabelFile
  /\ \E v \in 0..(mris.nvertices - 1) : mris.vertices[v].annotation # 0

\* the command line history of the file is within the cap
HistoryWithinCap ==
  \A i \in 1..Len(image.darray) :
    image.darray[i].intent = POINTSET => image.darray[i].meta.NUM_TAG_CMDLINE <= MAX_CMDS

\* C24 (as claimed): the read of a file with a LABEL array, with or without
\* a node index, onto any surface, one with excluded vertices included,
\* leaves the LABEL loop: the call returns.
C24_LabelLoopEnds ==
  (ReadDone /\ (SparseLabelFile \/ DenseLabelFile) /\ HistoryWithinCap)
  => ret.st # "hang"

\* the file has coordinates that record more command lines than MAX_CMDS
HistoryBeyondCap == LastDA(image, POINTSET) # 0 /\ ~HistoryWithinCap

\* C25 (as claimed): the read of a file whose coordinates record any number
\* of command lines, more than MAX_CMDS included, leaves the history block
\* and returns.
C25_HistoryEnds ==
  (ReadDone /\ HistoryBeyondCap) => ret.st # "hang"

\* C26 (as claimed): after a read that returns the surface of the file,
\* ncmds is the number of command lines stored in cmdlines, also when a
\* TAG_CMDLINE#<i> key below the recorded count is missing.
C26_CountIsStored ==
  (ReadDone /\ ret.st = "ok" /\ LastDA(image, POINTSET) # 0 /\ HistoryWithinCap)
  => mris.ncmds = Len(mris.cmdlines)

\* the vertex IDs of the file: the corners of its faces and the entries of
\* its node index
ArrayValues(a) == {a.data[k] : k \in 1..Len(a.data)}
FileIDs ==
  (IF LastDA(image, TRIANGLE) # 0 THEN ArrayValues(image.darray[LastDA(image, TRIANGLE)])
   ELSE {})
    \cup (IF Len(image.darray) >= 1 /\ image.darray[1].intent = NODE_INDEX
          THEN ArrayValues(image.darray[1]) ELSE {})

\* C27 (as claimed): the read of a surface file with a face corner or a
\* node index entry outside 0..N-1 fails, returning NULL, without the ID
\* having indexed the vertices.
C27_IDsChecked ==
  (ReadDone /\ LastDA(image, POINTSET) # 0 /\ LastDA(image, TRIANGLE) # 0
     /\ ~(FileIDs \subseteq 0..(FileVertices - 1)))
  => ret.st = "null"

\* the frame the first statistic array of the file is stored in: frame 1
\* after a SHAPE array, frame 0 otherwise
StatFrame ==
  IF FirstOf({SHAPE}) # 0 /\ FirstOf({SHAPE}) < FirstOf({TTEST}) THEN 1 ELSE 0

\* C29 (as claimed): the read, with a volume, of a surface followed by
\* SHAPE and statistic arrays of one row per vertex stores the first
\* statistic array as the SHAPE array is stored: vertex vno at voxel
\* (vno, 0, 0) of the frame current when the array is met, and the frame
\* counter has advanced by one for it.
C29_StatVoxelsLikeShape ==
  (ReadDone /\ orig.null /\ ret.st = "ok" /\ ret.outmri /\ OverlayFile
     /\ FirstOf({TTEST}) # 0)
  => /\ \A v \in 0..(FileVertices - 1) :
          /\ <<v, 0, 0, StatFrame>> \in DOMAIN ret.vox
          /\ ret.vox[<<v, 0, 0, StatFrame>>] = ValueOfFirst({TTEST}, v)
     /\ ret.frame = IF FirstOf({SHAPE}) # 0 THEN 2 ELSE 1

\* C30: a surface written by MRISwriteGIFTISurface, in each case of
\* useRealRAS, vg.valid and the Talairach matrix, and read back has the
\* useRealRAS it had before it was written.
C30_NativeSpaceRoundTrip ==
  (ReRead /\ ret.op = "read" /\ ret.st = "ok")
  => mris.useRealRAS = orig.useRealRAS

\* C30 witness: surfaces in real coordinates and not, with a valid volume
\* geometry and without, have been written and read back: here one that is
\* not in real coordinates, with a valid volume geometry, whose coordinate
\* system names the scanner space as the space of the transform
C30_Witness ==
  /\ ReRead /\ ret.op = "read" /\ ret.st = "ok"
  /\ orig.useRealRAS = 0 /\ orig.vg.valid # 0
  /\ Len(image.darray[LastDA(image, POINTSET)].coordsys) = 1
  /\ image.darray[LastDA(image, POINTSET)].coordsys[1].xformspace = SCANNER_ANAT
  /\ mris.useRealRAS = 0

\* ... and one in real coordinates without a valid volume geometry
RealRoundTrip ==
  /\ ReRead /\ ret.op = "read" /\ ret.st = "ok"
  /\ orig.useRealRAS # 0 /\ orig.vg.valid = 0 /\ mris.useRealRAS = 1

====
